---- MODULE Spec2Model ----
(***************************************************************************)
(* A model of the eventsourced runtime: Entity::spawn (recovery from the   *)
(* snapshot store and the event log), the handler loop of the entity task, *)
(* Entity::handle_cmd (persist, apply, snapshot) and EntityRef::handle_cmd *)
(* (the bounded command channel and the one-shot reply).                   *)
(*                                                                         *)
(* One entity id is modelled.  The event log and the snapshot store are    *)
(* shared values that outlive the entity task; the task may be spawned     *)
(* again over the same stores once it has terminated.                      *)
(*                                                                         *)
(* Spec      the entity task, its callers and the failures of the stores.  *)
(* SpecWide  the same with a channel that holds a command of every caller. *)
(* SpecFair  Spec with the scheduling of the task and of the senders.      *)
(* SpecDrop  callers that give up a call or drop their EntityRef.          *)
(* SpecTwo   a second Entity::spawn for the same id over the same stores.  *)
(* SpecOther an entity of another id beside the first one.                 *)
(* SpecCadence commands handled one after the other, up to 25 events.      *)
(* SpecStore save and load of the NATS and PostgreSQL snapshot stores.     *)
(* SpecSetup the construction of these stores from a Config, then saves.   *)
(***************************************************************************)
EXTENDS Integers, Sequences, FiniteSets, TLC

\* ------------------------------------------------------------------ bounds
\* The event log never grows beyond MaxSeqNo events.
MaxSeqNo == 3
\* Largest number of events one command produces.
MaxBatch == 2
\* The behavior asks for a snapshot at every SnapEvery-th seq_no, SnapEvery in 1..MaxSnapEvery.
MaxSnapEvery == 2
\* Stores found at the first spawn: up to MaxInitLog events, a snapshot at up to MaxInitLog.
MaxInitLog == 2
\* Number of EntityRef clones sending commands.
NumClients == 2
\* The buffer argument of Entity::spawn (the capacity of the command channel).
Buffer == 1
\* Commands in the channel or being handled whose caller gave up the call.
MaxAbandoned == 1
\* Entity ids that snapshots are saved for in the snapshot store adapters.
NumIds == 2
\* Number of save calls made on the snapshot store adapters.
MaxSaves == 3

Clients == 1 .. NumClients

\* ------------------------------------------------------------- Option<T>
None == [some |-> FALSE, v |-> 0]
Some(x) == [some |-> TRUE, v |-> x]

\* An or that prefers its argument.
OptionOrOther(self, other) == IF other.some THEN other ELSE self

\* Option::or (lib.rs:220): self if it is Some, otherwise the argument.
OptionOr(self, other) == IF self.some THEN self ELSE other

\* ------------------------------------------------------- the behavior
\* Commands of the behavior: Inc(n) and Dec(n) for the amounts n sent here,
\* and Batch(m), a command that produces m events (none when m = 0).
Amounts == {1}
Cmds ==
    [op : {"Inc", "Dec"}, n : Amounts] \cup [op : {"Batch"}, n : 0 .. MaxBatch]

\* The number of events a command can produce at most.
CmdSize(cmd) == IF cmd.op = "Batch" THEN cmd.n ELSE 1

Increased(old, inc) == [evt |-> "Increased", old_value |-> old, n |-> inc]
Decreased(old, dec) == [evt |-> "Decreased", old_value |-> old, n |-> dec]

\* EventSourced::handle_cmd of the counter behavior: a rejection, or the
\* ordered (possibly empty) list of events.  It does not change the behavior.
BehHandleCmd(value, cmd) ==
    CASE cmd.op = "Inc" ->
           [ok |-> TRUE, evts |-> <<Increased(value, cmd.n)>>, err |-> "none"]
      [] cmd.op = "Dec" ->
           IF cmd.n > value
           THEN [ok |-> FALSE, evts |-> <<>>, err |-> "Underflow"]
           ELSE [ok |-> TRUE, evts |-> <<Decreased(value, cmd.n)>>, err |-> "none"]
      [] OTHER ->
           [ok |-> TRUE, evts |-> [i \in 1 .. cmd.n |-> Increased(value + i - 1, 1)],
            err |-> "none"]

\* The state change of EventSourced::handle_evt.
BehApply(value, evt) ==
    IF evt.evt = "Increased" THEN value + evt.n ELSE value - evt.n

\* EventSourced::handle_evt: the new value, and Some(state) when a snapshot
\* is to be taken at this seq_no (every `every`-th sequence number).
BehHandleEvt(value, seq_no, evt, every) ==
    LET v == BehApply(value, evt)
    IN  [value |-> v, state |-> IF seq_no % every = 0 THEN Some(v) ELSE None]

\* EventSourced::set_state.
BehSetState(value, state) == state

\* Counter::default().
BehDefault == 0

\* -------------------------------------------------------- the stores
\* EvtLog::last_seq_no: 0 for an empty log, else the largest stored seq_no.
MaxOf(S) ==
    IF S = {} THEN 0
    ELSE LET x == CHOOSE y \in S : \A z \in S : z <= y IN x

LastSeqNo(log) == MaxOf({log[i].seq_no : i \in 1 .. Len(log)})

\* EvtLog::persist: appends the events as a contiguous run whose first
\* sequence number is expected_last_seq_no + 1.
LogPersist(log, evts, expected_last_seq_no) ==
    log \o [i \in 1 .. Len(evts) |->
              [seq_no |-> expected_last_seq_no + i, evt |-> evts[i]]]

\* EvtLog::evts_by_id: the events with from_seq_no <= seq_no <= to_seq_no,
\* in ascending order of seq_no.
RECURSIVE EvtsById(_, _, _)
EvtsById(log, from_seq_no, to_seq_no) ==
    IF from_seq_no > to_seq_no THEN <<>>
    ELSE LET here == {i \in 1 .. Len(log) : log[i].seq_no = from_seq_no}
         IN  (IF here = {} THEN <<>> ELSE <<log[CHOOSE i \in here : TRUE]>>)
             \o EvtsById(log, from_seq_no + 1, to_seq_no)

\* SnapshotStore::load: the stored snapshot, or none.
SnapLoad(store) == store

\* SnapshotStore::save: replaces any prior snapshot.
SnapSave(store, seq_no, state) == Some([seq_no |-> seq_no, state |-> state])

\* NoopSnapshotStore::load.
NoopLoad == None

\* ---------------------------------------------------------- the state
VARIABLES
    evtLog,      \* the event log of the id: a sequence of [seq_no, evt]
    snapStore,   \* the snapshot store's entry for the id: Option<[seq_no, state]>
    snapEvery,   \* the behavior's snapshot cadence
    pc,          \* the entity task: "unspawned", "idle", "persisting", "saving", "terminated"
    seq_no,      \* Entity.seq_no
    value,       \* Entity.event_sourced (the counter)
    cur,         \* the command being handled: [from, evts, state, awaited]
    queue,       \* the command channel: a sequence of [cmd, from, awaited]; awaited: the reply receiver exists
    cstate,      \* per client: "idle", "blocked" (in send), "waiting" (for the reply), "dropped" (its EntityRef)
    ccmd,        \* per client: the command of the call in progress
    replies,     \* what the EntityRef::handle_cmd calls completed by the last step returned
    spawnRet,    \* what the last Entity::spawn call returned
    trace,       \* the calls the last spawn or command made on the behavior and the stores
    fresh,       \* the stores were empty at the first spawn
    failed,      \* a storage operation has failed
    produced,    \* the events of the commands answered Ok, in order, while no storage operation has failed
    buffer,      \* the buffer argument of Entity::spawn: the capacity of the command channel
    pc2,         \* a second entity, spawned for the same id or for another id: its task
    seq_no2,     \* its Entity.seq_no
    value2,      \* its Entity.event_sourced
    evts2,       \* the events it is persisting
    queue2,      \* its command channel: a sequence of commands
    evtLog2,     \* the event log of the other id
    kv,          \* NatsSnapshotStore: the KV bucket, key -> value
    rows,        \* PostgresSnapshotStore: the rows of the table snapshots
    saved,       \* the save calls made on both adapters, in order: [id, seq_no, state, nats, pg], nats and pg: the call returned Ok
    buckets,     \* the names of the KV buckets of the NATS server
    tables,      \* the names of the tables of the PostgreSQL database
    config       \* the Config both stores were constructed with: [name, setup], name: bucket and snapshots_table

\* The second entity.
second == <<pc2, seq_no2, value2, evts2, queue2, evtLog2>>

\* The snapshot store adapters.
adapters == <<kv, rows, saved, buckets, tables, config>>

\* What the steps of the entity task and of its callers leave as it is.
rest == <<buffer, second, adapters>>

vars ==
    <<evtLog, snapStore, snapEvery, pc, seq_no, value, cur, queue, cstate, ccmd,
      replies, spawnRet, trace, fresh, failed, produced, rest>>

\* The first entity of the id, its callers and its stores.
core ==
    <<evtLog, snapStore, snapEvery, pc, seq_no, value, cur, queue, cstate, ccmd,
      replies, spawnRet, trace, fresh, failed, produced>>

NoCmd == [op |-> "none", n |-> 0]
NoConfig == [name |-> "none", setup |-> FALSE]
NoCur == [from |-> 0, evts |-> <<>>, state |-> None, awaited |-> FALSE]
NoReplies == [c \in {} |-> 0]
\* Result<Vec<Evt>, EntityRefError>: Ok(evts), InvalidCommand(err), SendCmd, EntityTerminated.
Outcome(kind, evts, err) == [kind |-> kind, evts |-> evts, err |-> err]

Call(op, s, st, ok) == [op |-> op, seq_no |-> s, state |-> st, ok |-> ok]

\* The stores an operator may leave behind before the first spawn: a log of
\* l events (each an increment by one) and a snapshot taken at s (0: none).
InitLog(l) == [i \in 1 .. l |-> [seq_no |-> i, evt |-> Increased(i - 1, 1)]]
InitSnap(s) == IF s = 0 THEN None ELSE Some([seq_no |-> s, state |-> s])

\* The state before the first spawn of an entity whose channel is to have one
\* of the capacities bs and whose behavior has one of the cadences es.
UnspawnedWith(bs, es) ==
    /\ \E l \in 0 .. MaxInitLog, s \in 0 .. MaxInitLog :
         /\ evtLog = InitLog(l)
         /\ snapStore = InitSnap(s)
         /\ fresh = (l = 0 /\ s = 0)
    /\ snapEvery \in es
    /\ buffer \in bs
    /\ pc2 = "unspawned"
    /\ seq_no2 = 0
    /\ value2 = BehDefault
    /\ evts2 = <<>>
    /\ queue2 = <<>>
    /\ evtLog2 = <<>>
    /\ kv = [k \in {} |-> 0]
    /\ rows = {}
    /\ saved = <<>>
    /\ pc = "unspawned"
    /\ seq_no = 0
    /\ value = BehDefault
    /\ cur = NoCur
    /\ queue = <<>>
    /\ cstate = [c \in Clients |-> "idle"]
    /\ ccmd = [c \in Clients |-> NoCmd]
    /\ replies = NoReplies
    /\ spawnRet = "none"
    /\ trace = <<>>
    /\ failed = FALSE
    /\ produced = <<>>

\* No snapshot store adapter is constructed; the NATS server has no bucket
\* and the database has no table.
NotConstructed ==
    /\ buckets = {}
    /\ tables = {}
    /\ config = NoConfig

Unspawned(bs) == UnspawnedWith(bs, 1 .. MaxSnapEvery) /\ NotConstructed

Init == Unspawned({Buffer})

\* ------------------------------------------------------- Entity::spawn
\* The storage operations of spawn that can fail, with the position of the
\* failing item for a failing pull from the replay stream.
SpawnFaults ==
    [kind : {"none", "load", "last_seq_no", "evts_by_id"}, at : {1}]
        \cup [kind : {"next_evt"}, at : 1 .. MaxSeqNo]

\* A replay that starts at the snapshot's own sequence number.
ReplayFromSnapshot(snapshot_seq_no) == snapshot_seq_no

\* lib.rs:140: the first sequence number to replay.
ReplayFrom(snapshot_seq_no) == snapshot_seq_no + 1

\* An entity that starts with the sequence number of the snapshot.
EntitySeqNoOfSnapshot(snapshot_seq_no, last_seq_no) == snapshot_seq_no

\* lib.rs:156: the seq_no the entity starts with.
EntitySeqNo(snapshot_seq_no, last_seq_no) == last_seq_no

\* lib.rs:147-150: handle_evt for the first n items of the replay stream, with
\* the seq_no the stream yields; what handle_evt returns is dropped.
RECURSIVE Replay(_, _, _, _)
Replay(stream, n, v0, every) ==
    IF n = 0 THEN [value |-> v0, trace |-> <<>>]
    ELSE LET before == Replay(stream, n - 1, v0, every)
             r == BehHandleEvt(before.value, stream[n].seq_no, stream[n].evt, every)
         IN  [value |-> r.value,
              trace |-> Append(before.trace,
                               Call("handle_evt", stream[n].seq_no, r.value, r.state.some))]

SpawnResult(ret, s, v, tr) == [ret |-> ret, seq_no |-> s, value |-> v, trace |-> tr]

\* A recovery without the assertion of lib.rs:135-138: a snapshot ahead of
\* the log is taken as it is and nothing is replayed.
SpawnRunNoAssert(log, loaded, every, fault) ==
    SpawnResult("Ok", LastSeqNo(log),
                IF loaded.some THEN BehSetState(BehDefault, loaded.v.state) ELSE BehDefault,
                IF loaded.some
                THEN <<Call("set_state", loaded.v.seq_no, loaded.v.state, TRUE)>>
                ELSE <<>>)

\* lib.rs:244-264: the variants of SpawnEntityError.
SpawnEntityError == {"LoadSnapshot", "LastSeqNo", "EvtsById", "NextEvt"}

\* lib.rs:112-162: recovery.  `loaded` is what SnapshotStore::load returned.
SpawnRun(log, loaded, every, fault) ==
    LET snapshot_seq_no == IF loaded.some THEN loaded.v.seq_no ELSE 0
        v0 == IF loaded.some THEN BehSetState(BehDefault, loaded.v.state) ELSE BehDefault
        tr0 == IF loaded.some
               THEN <<Call("set_state", loaded.v.seq_no, loaded.v.state, TRUE)>>
               ELSE <<>>
        last_seq_no == LastSeqNo(log)
        stream == EvtsById(log, ReplayFrom(snapshot_seq_no), last_seq_no)
        n == IF fault.kind = "next_evt" /\ fault.at <= Len(stream)
             THEN fault.at - 1 ELSE Len(stream)
        rep == Replay(stream, n, v0, every)
    IN  CASE fault.kind = "load" -> SpawnResult("LoadSnapshot", 0, BehDefault, <<>>)
          [] fault.kind = "last_seq_no" -> SpawnResult("LastSeqNo", 0, v0, tr0)
          [] fault.kind \notin {"load", "last_seq_no"} /\ snapshot_seq_no > last_seq_no ->
               SpawnResult("panic", 0, v0, tr0)
          [] fault.kind \notin {"load", "last_seq_no"} /\ snapshot_seq_no = last_seq_no ->
               SpawnResult("Ok", EntitySeqNo(snapshot_seq_no, last_seq_no), v0, tr0)
          [] fault.kind = "evts_by_id" /\ snapshot_seq_no < last_seq_no ->
               SpawnResult("EvtsById", 0, v0, tr0)
          [] fault.kind = "next_evt" /\ snapshot_seq_no < last_seq_no /\ n < Len(stream) ->
               SpawnResult("NextEvt", 0, rep.value, tr0 \o rep.trace)
          [] OTHER ->
               SpawnResult("Ok", EntitySeqNo(snapshot_seq_no, last_seq_no), rep.value,
                           tr0 \o rep.trace)

CanSpawn == pc \in {"unspawned", "terminated"}

\* A spawn that saves a snapshot when a replayed handle_evt returned Some.
SpawnOkSaving ==
    /\ CanSpawn
    /\ \E fault \in SpawnFaults :
         LET r == SpawnRun(evtLog, SnapLoad(snapStore), snapEvery, fault)
         IN  /\ r.ret = "Ok"
             /\ pc' = "idle"
             /\ seq_no' = r.seq_no
             /\ value' = r.value
             /\ trace' = r.trace
             /\ spawnRet' = r.ret
             /\ snapStore' =
                  IF \E i \in 1 .. Len(r.trace) : r.trace[i].op = "handle_evt" /\ r.trace[i].ok
                  THEN SnapSave(snapStore, r.seq_no, r.value)
                  ELSE snapStore
    /\ cur' = NoCur
    /\ queue' = <<>>
    /\ cstate' = [c \in Clients |-> "idle"]
    /\ UNCHANGED rest
    /\ replies' = NoReplies
    /\ UNCHANGED <<evtLog, snapEvery, ccmd, fresh, failed, produced>>

\* spawn succeeds: the entity task starts, idle, on an empty command channel,
\* and every caller gets a clone of the new EntityRef (lib.rs:165-187).
SpawnOk ==
    /\ CanSpawn
    /\ \E fault \in SpawnFaults :
         LET r == SpawnRun(evtLog, SnapLoad(snapStore), snapEvery, fault)
         IN  /\ r.ret = "Ok"
             /\ pc' = "idle"
             /\ seq_no' = r.seq_no
             /\ value' = r.value
             /\ trace' = r.trace
             /\ spawnRet' = r.ret
    /\ cur' = NoCur
    /\ queue' = <<>>
    /\ cstate' = [c \in Clients |-> "idle"]
    /\ UNCHANGED rest
    /\ replies' = NoReplies
    /\ UNCHANGED <<evtLog, snapStore, snapEvery, ccmd, fresh, failed,
                   produced>>

\* A spawn that starts the entity task with what it has recovered when a
\* storage operation fails.
SpawnErrStarted ==
    /\ CanSpawn
    /\ \E fault \in SpawnFaults :
         LET r == SpawnRun(evtLog, SnapLoad(snapStore), snapEvery, fault)
         IN  /\ r.ret \in {"LoadSnapshot", "LastSeqNo", "EvtsById", "NextEvt"}
             /\ trace' = r.trace
             /\ spawnRet' = r.ret
             /\ value' = r.value
    /\ pc' = "idle"
    /\ UNCHANGED rest
    /\ replies' = NoReplies
    /\ UNCHANGED <<evtLog, snapStore, snapEvery, seq_no, cur, queue, cstate,
                   ccmd, fresh, failed, produced>>

\* spawn returns a SpawnEntityError (lib.rs:116, 134, 145, 148): no task is started.
SpawnErr ==
    /\ CanSpawn
    /\ \E fault \in SpawnFaults :
         LET r == SpawnRun(evtLog, SnapLoad(snapStore), snapEvery, fault)
         IN  /\ r.ret \in {"LoadSnapshot", "LastSeqNo", "EvtsById", "NextEvt"}
             /\ trace' = r.trace
             /\ spawnRet' = r.ret
    /\ UNCHANGED rest
    /\ replies' = NoReplies
    /\ UNCHANGED <<evtLog, snapStore, snapEvery, pc, seq_no, value, cur, queue, cstate,
                   ccmd, fresh, failed, produced>>

\* the assertion of lib.rs:135-138 fails: the task calling spawn panics.
SpawnPanic ==
    /\ CanSpawn
    /\ \E fault \in SpawnFaults :
         LET r == SpawnRun(evtLog, SnapLoad(snapStore), snapEvery, fault)
         IN  /\ r.ret = "panic"
             /\ trace' = r.trace
             /\ spawnRet' = r.ret
    /\ UNCHANGED rest
    /\ replies' = NoReplies
    /\ UNCHANGED <<evtLog, snapStore, snapEvery, pc, seq_no, value, cur, queue, cstate,
                   ccmd, fresh, failed, produced>>

\* ---------------------------------------------- EntityRef::handle_cmd
\* The events the commands in progress may still add to the log.
RECURSIVE InFlight(_)
InFlight(cs) ==
    IF cs = {} THEN 0
    ELSE LET c == CHOOSE x \in cs : TRUE
         IN  (IF cstate[c] = "idle" THEN 0 ELSE CmdSize(ccmd[c])) + InFlight(cs \ {c})

\* The events the commands whose caller no longer awaits the reply may still
\* add to the log.
RECURSIVE AbandonedSize(_)
AbandonedSize(q) ==
    IF q = <<>> THEN 0
    ELSE (IF Head(q).awaited THEN 0 ELSE CmdSize(Head(q).cmd)) + AbandonedSize(Tail(q))

\* The number of those commands.
AbandonedCmds ==
    Len(SelectSeq(queue, LAMBDA m : ~m.awaited))
        + (IF pc \in {"persisting", "saving"} /\ ~cur.awaited THEN 1 ELSE 0)

Abandoned ==
    AbandonedSize(queue) + (IF pc = "persisting" /\ ~cur.awaited THEN Len(cur.evts) ELSE 0)

\* The events the commands sent to the second entity may still add to the log.
RECURSIVE QueueSize(_)
QueueSize(q) == IF q = <<>> THEN 0 ELSE CmdSize(Head(q)) + QueueSize(Tail(q))

InFlight2 == QueueSize(queue2) + Len(evts2)

Alive == pc \in {"idle", "persisting", "saving"}

\* The reply of the call of client c arrives (lib.rs:289).
Replied(c, kind, evts, err) ==
    /\ replies' = (c :> Outcome(kind, evts, err))
    /\ cstate' = [cstate EXCEPT ![c] = "idle"]
    /\ ccmd' = [ccmd EXCEPT ![c] = NoCmd]

\* lib.rs:174: result_sender.send(result): the reply arrives when the caller
\* still awaits it; otherwise the send fails and no call completes.
Reply(awaited, c, kind, evts, err) ==
    IF awaited THEN Replied(c, kind, evts, err)
    ELSE replies' = NoReplies /\ UNCHANGED <<cstate, ccmd>>

\* A handler loop that breaks when the reply cannot be sent.
AfterReplyChecked(awaited) == IF awaited THEN "idle" ELSE "terminated"

\* lib.rs:172-177: a failed send of the reply is logged; the loop goes on
\* to the next recv in either case.
AfterReply(awaited) == "idle"

\* lib.rs:287-288: the send finds room in the channel; the caller awaits the reply.
ClientSend(c) ==
    /\ cstate[c] = "idle"
    /\ Alive
    /\ Len(queue) < buffer
    /\ \E cmd \in Cmds :
         /\ Len(evtLog) + InFlight(Clients) + Abandoned + InFlight2 + CmdSize(cmd) <= MaxSeqNo
         /\ queue' = Append(queue, [cmd |-> cmd, from |-> c, awaited |-> TRUE])
         /\ ccmd' = [ccmd EXCEPT ![c] = cmd]
    /\ cstate' = [cstate EXCEPT ![c] = "waiting"]
    /\ UNCHANGED rest
    /\ replies' = NoReplies
    /\ UNCHANGED <<evtLog, snapStore, snapEvery, pc, seq_no, value, cur, spawnRet,
                   trace, fresh, failed, produced>>

\* A channel without a bound: the send completes though the channel is full.
ClientSendOverflow(c) ==
    /\ cstate[c] = "idle"
    /\ Alive
    /\ Len(queue) >= buffer
    /\ \E cmd \in Cmds :
         /\ Len(evtLog) + InFlight(Clients) + Abandoned + InFlight2 + CmdSize(cmd) <= MaxSeqNo
         /\ queue' = Append(queue, [cmd |-> cmd, from |-> c, awaited |-> TRUE])
         /\ ccmd' = [ccmd EXCEPT ![c] = cmd]
    /\ cstate' = [cstate EXCEPT ![c] = "waiting"]
    /\ UNCHANGED rest
    /\ replies' = NoReplies
    /\ UNCHANGED <<evtLog, snapStore, snapEvery, pc, seq_no, value, cur, spawnRet,
                   trace, fresh, failed, produced>>

\* lib.rs:288: the channel is full; the send is suspended.
ClientSendFull(c) ==
    /\ cstate[c] = "idle"
    /\ Alive
    /\ Len(queue) >= buffer
    /\ \E cmd \in Cmds :
         /\ Len(evtLog) + InFlight(Clients) + Abandoned + InFlight2 + CmdSize(cmd) <= MaxSeqNo
         /\ ccmd' = [ccmd EXCEPT ![c] = cmd]
    /\ cstate' = [cstate EXCEPT ![c] = "blocked"]
    /\ UNCHANGED rest
    /\ replies' = NoReplies
    /\ UNCHANGED <<evtLog, snapStore, snapEvery, pc, seq_no, value, cur, queue, spawnRet, trace, fresh, failed, produced>>

\* lib.rs:288: a suspended send completes once the channel has room.
ClientSendResume(c) ==
    /\ cstate[c] = "blocked"
    /\ Alive
    /\ Len(queue) < buffer
    /\ queue' = Append(queue, [cmd |-> ccmd[c], from |-> c, awaited |-> TRUE])
    /\ cstate' = [cstate EXCEPT ![c] = "waiting"]
    /\ UNCHANGED rest
    /\ replies' = NoReplies
    /\ UNCHANGED <<evtLog, snapStore, snapEvery, pc, seq_no, value, cur, ccmd, spawnRet, trace, fresh, failed, produced>>

\* lib.rs:288: the receiver is gone; the send fails with SendCmd.
ClientSendClosed(c) ==
    /\ cstate[c] = "idle"
    /\ pc = "terminated"
    /\ replies' = (c :> Outcome("SendCmd", <<>>, "none"))
    /\ UNCHANGED rest
    /\ UNCHANGED <<evtLog, snapStore, snapEvery, pc, seq_no, value, cur, queue, cstate,
                   ccmd, spawnRet, trace, fresh, failed, produced>>

\* ----------------------------------------------- Entity::handle_cmd
\* An entity that persists every accepted batch, the empty one too.
ShouldPersistAlways(evts) == TRUE

\* lib.rs:207: events are persisted only when there are some.
ShouldPersist(evts) == evts # <<>>

\* A fold that does not advance the sequence number.
NextSeqNoStuck(s) == s

\* lib.rs:219: the sequence number of the next event.
NextSeqNo(s) == s + 1

\* A fold that advances the sequence number by the size of the batch first
\* and passes that one number to every handle_evt call.
RECURSIVE FoldEvtsBulk(_, _, _, _, _)
FoldEvtsBulk(evts, n, s0, v0, every) ==
    IF n = 0 THEN [seq_no |-> s0, value |-> v0, state |-> None, trace |-> <<>>]
    ELSE LET before == FoldEvtsBulk(evts, n - 1, s0, v0, every)
             s == s0 + Len(evts)
             r == BehHandleEvt(before.value, s, evts[n], every)
         IN  [seq_no |-> s,
              value |-> r.value,
              state |-> OptionOr(r.state, before.state),
              trace |-> Append(before.trace, Call("handle_evt", s, r.value, r.state.some))]

\* lib.rs:218-221: the fold over the first n events of the batch: seq_no is
\* incremented, handle_evt is called with it, and the latest Some(state) is kept.
RECURSIVE FoldEvts(_, _, _, _, _)
FoldEvts(evts, n, s0, v0, every) ==
    IF n = 0 THEN [seq_no |-> s0, value |-> v0, state |-> None, trace |-> <<>>]
    ELSE LET before == FoldEvts(evts, n - 1, s0, v0, every)
             s == NextSeqNo(before.seq_no)
             r == BehHandleEvt(before.value, s, evts[n], every)
         IN  [seq_no |-> s,
              value |-> r.value,
              state |-> OptionOr(r.state, before.state),
              trace |-> Append(before.trace, Call("handle_evt", s, r.value, r.state.some))]

\* A save under the sequence number of the event to come.
SnapshotSeqNoAhead(self_seq_no) == self_seq_no + 1

\* lib.rs:229: the sequence number the snapshot is saved with.
SnapshotSeqNo(self_seq_no) == self_seq_no

\* A channel that hands out the command sent last.
ChanRecvLast(q) == [msg |-> q[Len(q)], rest |-> SubSeq(q, 1, Len(q) - 1)]

\* lib.rs:170: cmd_out.recv() hands out the command that was sent first.
ChanRecv(q) == [msg |-> Head(q), rest |-> Tail(q)]

\* A task that leaves the loop and keeps the reply senders and the receiver
\* alive: nobody is told.
TerminateSilently ==
    /\ pc' = "terminated"
    /\ cur' = NoCur
    /\ queue' = <<>>
    /\ replies' = NoReplies
    /\ cstate' = cstate
    /\ ccmd' = ccmd
    /\ failed' = TRUE
    /\ produced' = <<>>

\* lib.rs:178-184: the task leaves the loop.  The reply sender of the current
\* command, the receiver and the commands still queued are dropped: every
\* caller awaiting a reply gets EntityTerminated, every suspended send SendCmd.
Terminate ==
    /\ pc' = "terminated"
    /\ cur' = NoCur
    /\ queue' = <<>>
    /\ replies' = [c \in {x \in Clients : cstate[x] # "idle"} |->
                     IF cstate[c] = "waiting"
                     THEN Outcome("EntityTerminated", <<>>, "none")
                     ELSE Outcome("SendCmd", <<>>, "none")]
    /\ cstate' = [c \in Clients |-> "idle"]
    /\ ccmd' = [c \in Clients |-> NoCmd]
    /\ failed' = TRUE
    /\ produced' = <<>>

\* A run loop that treats a rejected command as fatal.
RecvRejectFatal ==
    /\ pc = "idle"
    /\ queue # <<>>
    /\ ~BehHandleCmd(value, Head(queue).cmd).ok
    /\ Terminate
    /\ trace' = <<Call("handle_cmd", seq_no, value, FALSE)>>
    /\ UNCHANGED rest
    /\ UNCHANGED <<evtLog, snapStore, snapEvery, seq_no, value, spawnRet, fresh>>

\* lib.rs:170-177, 202-205: the behavior rejects the command.
RecvReject ==
    /\ pc = "idle"
    /\ queue # <<>>
    /\ LET m == ChanRecv(queue).msg
           r == BehHandleCmd(value, m.cmd)
       IN  /\ ~r.ok
           /\ Reply(m.awaited, m.from, "InvalidCommand", <<>>, r.err)
           /\ pc' = AfterReply(m.awaited)
           /\ trace' = <<Call("handle_cmd", seq_no, value, r.ok)>>
    /\ queue' = ChanRecv(queue).rest
    /\ UNCHANGED rest
    /\ UNCHANGED <<evtLog, snapStore, snapEvery, seq_no, value, cur, spawnRet, fresh,
                   failed, produced>>

\* lib.rs:170-177, 202-207, 238: the command is accepted and produces no event.
RecvEmpty ==
    /\ pc = "idle"
    /\ queue # <<>>
    /\ LET m == ChanRecv(queue).msg
           r == BehHandleCmd(value, m.cmd)
       IN  /\ r.ok
           /\ ~ShouldPersist(r.evts)
           /\ Reply(m.awaited, m.from, "Ok", r.evts, "none")
           /\ pc' = AfterReply(m.awaited)
           /\ trace' = <<Call("handle_cmd", seq_no, value, r.ok)>>
    /\ queue' = ChanRecv(queue).rest
    /\ UNCHANGED rest
    /\ UNCHANGED <<evtLog, snapStore, snapEvery, seq_no, value, cur, spawnRet, fresh,
                   failed, produced>>

\* lib.rs:170-171, 202-215: the command produces events; persist is awaited.
RecvPersist ==
    /\ pc = "idle"
    /\ queue # <<>>
    /\ LET m == ChanRecv(queue).msg
           r == BehHandleCmd(value, m.cmd)
       IN  /\ r.ok
           /\ ShouldPersist(r.evts)
           /\ cur' = [from |-> m.from, evts |-> r.evts, state |-> None, awaited |-> m.awaited]
           /\ trace' = <<Call("handle_cmd", seq_no, value, r.ok)>>
    /\ queue' = ChanRecv(queue).rest
    /\ pc' = "persisting"
    /\ UNCHANGED rest
    /\ replies' = NoReplies
    /\ UNCHANGED <<evtLog, snapStore, snapEvery, seq_no, value, cstate, ccmd, spawnRet, fresh, failed, produced>>

\* lib.rs:215-224, 238, 172-177: persist succeeds, the events are applied, no
\* snapshot is asked for, and Ok(evts) is sent.
PersistThenReply ==
    /\ pc = "persisting"
    /\ LET f == FoldEvts(cur.evts, Len(cur.evts), seq_no, value, snapEvery)
       IN  /\ ~f.state.some
           /\ seq_no' = f.seq_no
           /\ value' = f.value
           /\ trace' = Append(trace, Call("persist", seq_no, 0, TRUE)) \o f.trace
    /\ evtLog' = LogPersist(evtLog, cur.evts, seq_no)
    /\ Reply(cur.awaited, cur.from, "Ok", cur.evts, "none")
    /\ produced' = IF failed THEN produced ELSE produced \o cur.evts
    /\ pc' = AfterReply(cur.awaited)
    /\ cur' = NoCur
    /\ UNCHANGED rest
    /\ UNCHANGED <<snapStore, snapEvery, queue, spawnRet, fresh, failed>>

\* A task that sends Ok(evts) as soon as the events are persisted and
\* applied, before the save it goes on to await.
PersistThenSaveReplied ==
    /\ pc = "persisting"
    /\ LET f == FoldEvts(cur.evts, Len(cur.evts), seq_no, value, snapEvery)
       IN  /\ f.state.some
           /\ seq_no' = f.seq_no
           /\ value' = f.value
           /\ cur' = [cur EXCEPT !.state = f.state, !.awaited = FALSE]
           /\ trace' = Append(trace, Call("persist", seq_no, 0, TRUE)) \o f.trace
    /\ evtLog' = LogPersist(evtLog, cur.evts, seq_no)
    /\ pc' = "saving"
    /\ Reply(cur.awaited, cur.from, "Ok", cur.evts, "none")
    /\ UNCHANGED rest
    /\ UNCHANGED <<snapStore, snapEvery, queue, spawnRet, fresh, failed, produced>>

\* lib.rs:215-234: persist succeeds, the events are applied, and a snapshot
\* was asked for; save is awaited.
PersistThenSave ==
    /\ pc = "persisting"
    /\ LET f == FoldEvts(cur.evts, Len(cur.evts), seq_no, value, snapEvery)
       IN  /\ f.state.some
           /\ seq_no' = f.seq_no
           /\ value' = f.value
           /\ cur' = [cur EXCEPT !.state = f.state]
           /\ trace' = Append(trace, Call("persist", seq_no, 0, TRUE)) \o f.trace
    /\ evtLog' = LogPersist(evtLog, cur.evts, seq_no)
    /\ pc' = "saving"
    /\ UNCHANGED rest
    /\ replies' = NoReplies
    /\ UNCHANGED <<snapStore, snapEvery, queue, cstate, ccmd, spawnRet, fresh,
                   failed, produced>>

\* A run loop that swallows the persist error, answers Ok and goes on.
PersistFailIgnored ==
    /\ pc = "persisting"
    /\ Replied(cur.from, "Ok", cur.evts, "none")
    /\ trace' = Append(trace, Call("persist", seq_no, 0, FALSE))
    /\ pc' = "idle"
    /\ cur' = NoCur
    /\ UNCHANGED rest
    /\ UNCHANGED <<evtLog, snapStore, snapEvery, seq_no, value, queue, spawnRet, fresh,
                   failed, produced>>

\* lib.rs:215, 178-184: persist fails; the task exits.
PersistFail ==
    /\ pc = "persisting"
    /\ Terminate
    /\ trace' = Append(trace, Call("persist", seq_no, 0, FALSE))
    /\ UNCHANGED rest
    /\ UNCHANGED <<evtLog, snapStore, snapEvery, seq_no, value, spawnRet, fresh>>

\* lib.rs:227-238, 172-177: save succeeds and Ok(evts) is sent.
SaveOk ==
    /\ pc = "saving"
    /\ snapStore' = SnapSave(snapStore, SnapshotSeqNo(seq_no), cur.state.v)
    /\ trace' = Append(trace, Call("save", SnapshotSeqNo(seq_no), cur.state.v, TRUE))
    /\ Reply(cur.awaited, cur.from, "Ok", cur.evts, "none")
    /\ produced' = IF failed THEN produced ELSE produced \o cur.evts
    /\ pc' = AfterReply(cur.awaited)
    /\ cur' = NoCur
    /\ UNCHANGED rest
    /\ UNCHANGED <<evtLog, snapEvery, seq_no, value, queue, spawnRet, fresh, failed>>

\* A run loop that swallows the save error, answers Ok and goes on.
SaveFailIgnored ==
    /\ pc = "saving"
    /\ Replied(cur.from, "Ok", cur.evts, "none")
    /\ trace' = Append(trace, Call("save", SnapshotSeqNo(seq_no), cur.state.v, FALSE))
    /\ pc' = "idle"
    /\ cur' = NoCur
    /\ UNCHANGED rest
    /\ UNCHANGED <<evtLog, snapStore, snapEvery, seq_no, value, queue, spawnRet, fresh,
                   failed, produced>>

\* lib.rs:234, 178-184: save fails; the task exits.
SaveFail ==
    /\ pc = "saving"
    /\ Terminate
    /\ trace' = Append(trace, Call("save", SnapshotSeqNo(seq_no), cur.state.v, FALSE))
    /\ UNCHANGED rest
    /\ UNCHANGED <<evtLog, snapStore, snapEvery, seq_no, value, spawnRet, fresh>>

Next ==
    \/ SpawnOk
    \/ SpawnErr
    \/ SpawnPanic
    \/ \E c \in Clients : ClientSend(c)
    \/ \E c \in Clients : ClientSendFull(c)
    \/ \E c \in Clients : ClientSendResume(c)
    \/ \E c \in Clients : ClientSendClosed(c)
    \/ RecvReject
    \/ RecvEmpty
    \/ RecvPersist
    \/ PersistThenReply
    \/ PersistThenSave
    \/ PersistFail
    \/ SaveOk
    \/ SaveFail

Spec == Init /\ [][Next]_vars

\* An entity whose channel has room for one command of every caller: no
\* send is ever suspended.
WideBuffer == NumClients

InitWide == Unspawned({WideBuffer})

NextWide ==
    \/ SpawnOk
    \/ SpawnErr
    \/ SpawnPanic
    \/ \E c \in Clients : ClientSend(c)
    \/ \E c \in Clients : ClientSendClosed(c)
    \/ RecvReject
    \/ RecvEmpty
    \/ RecvPersist
    \/ PersistThenReply
    \/ PersistThenSave
    \/ PersistFail
    \/ SaveOk
    \/ SaveFail

SpecWide == InitWide /\ [][NextWide]_vars

\* The steps of the entity task when the storage operations complete, with
\* success or with an error.
TaskStepOrFail ==
    \/ RecvReject
    \/ RecvEmpty
    \/ RecvPersist
    \/ PersistThenReply
    \/ PersistThenSave
    \/ PersistFail
    \/ SaveOk
    \/ SaveFail

\* The runtime schedules the spawned task (lib.rs:168) whenever it can take
\* a step, the storage operations it awaits complete, and a suspended send
\* (lib.rs:288) gets its turn: the channel serves its waiting senders in order.
SpecFair ==
    /\ Init
    /\ [][Next]_vars
    /\ WF_vars(TaskStepOrFail)
    /\ \A c \in Clients : SF_vars(ClientSendResume(c))

\* ------------------------------------------- callers that give up or leave
\* lib.rs:289: the future of EntityRef::handle_cmd is dropped while it
\* awaits the reply: the reply receiver is gone, the command stays where it is.
DropAwaiter(c) ==
    /\ cstate[c] = "waiting"
    /\ AbandonedCmds < MaxAbandoned
    /\ IF pc \in {"persisting", "saving"} /\ cur.from = c /\ cur.awaited
       THEN /\ cur' = [cur EXCEPT !.awaited = FALSE]
            /\ queue' = queue
       ELSE /\ queue' = [i \in 1 .. Len(queue) |->
                           IF queue[i].from = c /\ queue[i].awaited
                           THEN [queue[i] EXCEPT !.awaited = FALSE]
                           ELSE queue[i]]
            /\ cur' = cur
    /\ cstate' = [cstate EXCEPT ![c] = "idle"]
    /\ ccmd' = [ccmd EXCEPT ![c] = NoCmd]
    /\ UNCHANGED rest
    /\ replies' = NoReplies
    /\ UNCHANGED <<evtLog, snapStore, snapEvery, pc, seq_no, value, spawnRet,
                   trace, fresh, failed, produced>>

\* lib.rs:266-269: a caller that has no call in progress drops its clone of
\* the EntityRef, and with it its sender of the command channel.  The callers
\* are interchangeable: they are numbered in the reverse of the order in which
\* they leave.
DropRef(c) ==
    /\ cstate[c] = "idle"
    /\ Alive
    /\ \A d \in Clients : d > c => cstate[d] = "dropped"
    /\ cstate' = [cstate EXCEPT ![c] = "dropped"]
    /\ UNCHANGED rest
    /\ replies' = NoReplies
    /\ UNCHANGED <<evtLog, snapStore, snapEvery, pc, seq_no, value, cur, queue, ccmd,
                   spawnRet, trace, fresh, failed, produced>>

\* Every clone of the EntityRef is dropped: the channel is closed.
Closed == \A c \in Clients : cstate[c] = "dropped"

\* A task that leaves the loop as soon as the channel is closed.
TaskExitEarly ==
    /\ pc = "idle"
    /\ Closed
    /\ pc' = "terminated"
    /\ queue' = <<>>
    /\ UNCHANGED rest
    /\ replies' = NoReplies
    /\ UNCHANGED <<evtLog, snapStore, snapEvery, seq_no, value, cur, cstate, ccmd,
                   spawnRet, trace, fresh, failed, produced>>

\* lib.rs:170, 185: recv returns None once the channel is closed and empty;
\* the task leaves the loop.
TaskExit ==
    /\ pc = "idle"
    /\ Closed
    /\ queue = <<>>
    /\ pc' = "terminated"
    /\ UNCHANGED rest
    /\ replies' = NoReplies
    /\ UNCHANGED <<evtLog, snapStore, snapEvery, seq_no, value, cur, queue, cstate, ccmd,
                   spawnRet, trace, fresh, failed, produced>>

\* The runtime over a snapshot store that is empty at the first spawn, a
\* behavior that asks for a snapshot at every MaxSnapEvery-th event and
\* stores whose operations succeed, with callers that may give up a call or
\* drop their EntityRef.
InitDrop == Init /\ snapStore = None /\ snapEvery = MaxSnapEvery

NextDrop ==
    \/ SpawnOk
    \/ \E c \in Clients : ClientSend(c)
    \/ \E c \in Clients : ClientSendFull(c)
    \/ \E c \in Clients : ClientSendResume(c)
    \/ RecvReject
    \/ RecvEmpty
    \/ RecvPersist
    \/ PersistThenReply
    \/ PersistThenSave
    \/ SaveOk
    \/ \E c \in Clients : DropAwaiter(c)
    \/ \E c \in Clients : DropRef(c)
    \/ TaskExit

\* The steps of the entity task when the stores succeed.
TaskStep ==
    \/ RecvReject
    \/ RecvEmpty
    \/ RecvPersist
    \/ PersistThenReply
    \/ PersistThenSave
    \/ SaveOk
    \/ TaskExit

\* The runtime schedules the spawned task (lib.rs:168) whenever it can take
\* a step, and the storage operations it awaits complete.
SpecDrop == InitDrop /\ [][NextDrop]_vars /\ WF_vars(TaskStep)

\* ------------------------------------------ a second entity for the same id
\* lib.rs:89-188: Entity::spawn is called for the id while the first entity
\* is alive; nothing in spawn looks for a live entity of the id.
SecondSpawn ==
    /\ Alive
    /\ pc2 = "unspawned"
    /\ LET r == SpawnRun(evtLog, SnapLoad(snapStore), snapEvery, [kind |-> "none", at |-> 1])
       IN  /\ r.ret = "Ok"
           /\ seq_no2' = r.seq_no
           /\ value2' = r.value
    /\ pc2' = "idle"
    /\ UNCHANGED <<evts2, queue2, buffer, adapters, evtLog2>>
    /\ UNCHANGED <<evtLog, snapStore, snapEvery, pc, seq_no, value, cur, queue, cstate, ccmd,
                   replies, spawnRet, trace, fresh, failed, produced>>

\* lib.rs:287-288: some caller sends a command on the second EntityRef.
SecondSend ==
    /\ pc2 \in {"idle", "persisting"}
    /\ Len(queue2) < buffer
    /\ \E cmd \in Cmds :
         /\ Len(evtLog) + InFlight(Clients) + Abandoned + InFlight2 + CmdSize(cmd) <= MaxSeqNo
         /\ queue2' = Append(queue2, cmd)
    /\ UNCHANGED <<pc2, seq_no2, value2, evts2, buffer, adapters, evtLog2>>
    /\ UNCHANGED <<evtLog, snapStore, snapEvery, pc, seq_no, value, cur, queue, cstate, ccmd,
                   replies, spawnRet, trace, fresh, failed, produced>>

\* lib.rs:170-177, 202-215: the second task takes a command; when the
\* behavior accepts it with events, persist is awaited, otherwise the reply
\* is sent.
SecondRecv ==
    /\ pc2 = "idle"
    /\ queue2 # <<>>
    /\ LET r == BehHandleCmd(value2, ChanRecv(queue2).msg)
       IN  IF r.ok /\ ShouldPersist(r.evts)
           THEN pc2' = "persisting" /\ evts2' = r.evts
           ELSE pc2' = "idle" /\ evts2' = <<>>
    /\ queue2' = ChanRecv(queue2).rest
    /\ UNCHANGED <<seq_no2, value2, buffer, adapters, evtLog2>>
    /\ UNCHANGED <<evtLog, snapStore, snapEvery, pc, seq_no, value, cur, queue, cstate, ccmd,
                   replies, spawnRet, trace, fresh, failed, produced>>

\* lib.rs:210-238: the persist of the second task succeeds, the events are
\* applied, a snapshot that was asked for is saved, and the reply is sent.
SecondPersist ==
    /\ pc2 = "persisting"
    /\ LET f == FoldEvts(evts2, Len(evts2), seq_no2, value2, snapEvery)
       IN  /\ seq_no2' = f.seq_no
           /\ value2' = f.value
           /\ snapStore' = IF f.state.some
                           THEN SnapSave(snapStore, SnapshotSeqNo(f.seq_no), f.state.v)
                           ELSE snapStore
    /\ evtLog' = LogPersist(evtLog, evts2, seq_no2)
    /\ pc2' = "idle"
    /\ evts2' = <<>>
    /\ UNCHANGED <<queue2, buffer, adapters, evtLog2>>
    /\ UNCHANGED <<snapEvery, pc, seq_no, value, cur, queue, cstate, ccmd,
                   replies, spawnRet, trace, fresh, failed, produced>>

\* The first entity over stores that succeed, and a second entity spawned
\* for the same id over the same stores.
NextTwo ==
    \/ SpawnOk
    \/ \E c \in Clients : ClientSend(c)
    \/ \E c \in Clients : ClientSendFull(c)
    \/ \E c \in Clients : ClientSendResume(c)
    \/ RecvReject
    \/ RecvEmpty
    \/ RecvPersist
    \/ PersistThenReply
    \/ PersistThenSave
    \/ SaveOk
    \/ SecondSpawn
    \/ SecondSend
    \/ SecondRecv
    \/ SecondPersist

SpecTwo == InitDrop /\ [][NextTwo]_vars

\* ------------------------------------------------ an entity of another id
\* lib.rs:89-188: an entity is spawned for another id, over the event log
\* of that id and the no-op snapshot store.
OtherSpawn ==
    /\ Alive
    /\ pc2 = "unspawned"
    /\ LET r == SpawnRun(evtLog2, NoopLoad, snapEvery, [kind |-> "none", at |-> 1])
       IN  /\ r.ret = "Ok"
           /\ seq_no2' = r.seq_no
           /\ value2' = r.value
    /\ pc2' = "idle"
    /\ UNCHANGED <<evts2, queue2, evtLog2, buffer, adapters>>
    /\ UNCHANGED core

\* lib.rs:287-288: some caller sends a command on the EntityRef of the other
\* entity (MaxSeqNo bounds the events of the two logs together).
OtherSend ==
    /\ pc2 \in {"idle", "persisting"}
    /\ Len(queue2) < buffer
    /\ \E cmd \in Cmds :
         /\ Len(evtLog) + InFlight(Clients) + Len(evtLog2) + InFlight2 + CmdSize(cmd)
               <= MaxSeqNo
         /\ queue2' = Append(queue2, cmd)
    /\ UNCHANGED <<pc2, seq_no2, value2, evts2, evtLog2, buffer, adapters>>
    /\ UNCHANGED core

\* A task that takes the next command while the persist of the current one
\* is awaited and answers it at once when it produces no event.
OtherRecvEager ==
    /\ pc2 \in {"idle", "persisting"}
    /\ queue2 # <<>>
    /\ LET r == BehHandleCmd(value2, ChanRecv(queue2).msg)
       IN  IF pc2 = "idle" /\ r.ok /\ ShouldPersist(r.evts)
           THEN pc2' = "persisting" /\ evts2' = r.evts
           ELSE pc2' = pc2 /\ evts2' = evts2
    /\ queue2' = ChanRecv(queue2).rest
    /\ UNCHANGED <<seq_no2, value2, evtLog2, buffer, adapters>>
    /\ UNCHANGED core

\* lib.rs:170-177, 202-215: the task of the other entity takes a command;
\* when the behavior accepts it with events, persist is awaited, otherwise
\* the reply is sent.
OtherRecv ==
    /\ pc2 = "idle"
    /\ queue2 # <<>>
    /\ LET r == BehHandleCmd(value2, ChanRecv(queue2).msg)
       IN  IF r.ok /\ ShouldPersist(r.evts)
           THEN pc2' = "persisting" /\ evts2' = r.evts
           ELSE pc2' = "idle" /\ evts2' = <<>>
    /\ queue2' = ChanRecv(queue2).rest
    /\ UNCHANGED <<seq_no2, value2, evtLog2, buffer, adapters>>
    /\ UNCHANGED core

\* lib.rs:210-238: the persist of the other entity succeeds, the events are
\* applied, the no-op snapshot store takes a snapshot that was asked for,
\* and the reply is sent.
OtherPersist ==
    /\ pc2 = "persisting"
    /\ LET f == FoldEvts(evts2, Len(evts2), seq_no2, value2, snapEvery)
       IN  /\ seq_no2' = f.seq_no
           /\ value2' = f.value
    /\ evtLog2' = LogPersist(evtLog2, evts2, seq_no2)
    /\ pc2' = "idle"
    /\ evts2' = <<>>
    /\ UNCHANGED <<queue2, buffer, adapters>>
    /\ UNCHANGED core

\* The first entity over stores that succeed, and an entity of another id.
NextOther ==
    \/ SpawnOk
    \/ \E c \in Clients : ClientSend(c)
    \/ RecvReject
    \/ RecvEmpty
    \/ RecvPersist
    \/ PersistThenReply
    \/ PersistThenSave
    \/ SaveOk
    \/ OtherSpawn
    \/ OtherSend
    \/ OtherRecv
    \/ OtherPersist

SpecOther == InitDrop /\ [][NextOther]_vars

\* ------------------------------------------------- the snapshot cadence
\* A behavior that asks for a snapshot at every CadenceEvery-th sequence
\* number, and the number of events its entity is sent commands for.
CadenceEvery == 10
CadenceCmds == 25

\* The commands sent: Inc(1), and batches of up to MaxBatch events.
CadenceCmdSet == {cmd \in Cmds : cmd.op # "Dec"}

\* lib.rs:170-177, 190-239: the task takes a command and handles it to its
\* end over stores that succeed: handle_cmd, and for a batch that is not
\* empty persist, the fold of handle_evt and the save of the snapshot the
\* fold left, if any.
HandleCmd(cmd) ==
    /\ pc = "idle"
    /\ seq_no + CmdSize(cmd) <= CadenceCmds
    /\ LET r == BehHandleCmd(value, cmd)
           f == FoldEvts(r.evts, Len(r.evts), seq_no, value, snapEvery)
           called == <<Call("handle_cmd", seq_no, value, r.ok)>>
       IN  IF ~r.ok \/ ~ShouldPersist(r.evts)
           THEN /\ trace' = called
                /\ UNCHANGED <<evtLog, snapStore, seq_no, value>>
           ELSE /\ evtLog' = LogPersist(evtLog, r.evts, seq_no)
                /\ seq_no' = f.seq_no
                /\ value' = f.value
                /\ snapStore' =
                     IF f.state.some
                     THEN SnapSave(snapStore, SnapshotSeqNo(f.seq_no), f.state.v)
                     ELSE snapStore
                /\ trace' =
                     Append(called, Call("persist", seq_no, 0, TRUE)) \o f.trace
                        \o (IF f.state.some
                            THEN <<Call("save", SnapshotSeqNo(f.seq_no), f.state.v, TRUE)>>
                            ELSE <<>>)
    /\ UNCHANGED rest
    /\ UNCHANGED <<snapEvery, pc, cur, queue, cstate, ccmd, replies, spawnRet, fresh,
                   failed, produced>>

\* An entity over empty stores whose behavior has a cadence of up to
\* CadenceEvery.
InitCadence ==
    /\ UnspawnedWith({Buffer}, 1 .. CadenceEvery)
    /\ NotConstructed
    /\ fresh = TRUE

NextCadence ==
    \/ SpawnOk
    \/ \E cmd \in CadenceCmdSet : HandleCmd(cmd)

SpecCadence == InitCadence /\ [][NextCadence]_vars

\* ------------------------------------------- the snapshot store adapters
\* The states saved and the ids saved for.
StateValues == {0, 1}
Ids == 1 .. NumIds

\* The codec handed to save and load (convert::prost): an i32 as bytes and back.
ToBytes(state) == <<"i32", state>>
FromBytes(bytes) == bytes[2]

\* proto::Snapshot { seq_no, state }, encoded and decoded.
SnapshotEncode(sn, state) == <<"Snapshot", sn, state>>
SnapshotDecode(bytes) == [seq_no |-> bytes[2], state |-> bytes[3]]

\* Result<Option<Snapshot<S>>, Error> of load.
LoadNone == [ok |-> TRUE, some |-> FALSE, seq_no |-> 0, state |-> 0]
LoadSome(sn, state) == [ok |-> TRUE, some |-> TRUE, seq_no |-> sn, state |-> state]
LoadErr == [ok |-> FALSE, some |-> FALSE, seq_no |-> 0, state |-> 0]

\* SeqNo::try_from(u64): zero is not a sequence number.
ValidSeqNo(n) == n # 0

\* A KV store that keeps everything under one key.
NatsKeyShared(id) == "snapshot"

\* nats snapshot_store.rs:100, 125: the key is id.to_string().
NatsKey(id) == <<"uuid", id>>

\* nats snapshot_store.rs:90-108: save puts the encoded snapshot under the
\* key of the id; a put replaces the value of the key.
NatsSave(bucket, id, sn, state) ==
    [k \in DOMAIN bucket \cup {NatsKey(id)} |->
        IF k = NatsKey(id) THEN SnapshotEncode(sn, ToBytes(state)) ELSE bucket[k]]

\* nats snapshot_store.rs:122-145: load gets the value of the key, decodes
\* it, converts the state and the sequence number.
NatsLoad(bucket, id) ==
    IF NatsKey(id) \notin DOMAIN bucket THEN LoadNone
    ELSE LET snapshot == SnapshotDecode(bucket[NatsKey(id)])
         IN  IF ValidSeqNo(snapshot.seq_no)
             THEN LoadSome(snapshot.seq_no, FromBytes(snapshot.state))
             ELSE LoadErr

\* The table snapshots(id, seq_no, state) has the primary key (id, seq_no):
\* an INSERT of a row whose key is in the table fails.
PgInsertOk(table, id, sn) ==
    ~\E r \in table : r.id = id /\ r.seq_no = sn

\* postgres snapshot_store.rs:85-93: save inserts a row (sequence numbers
\* below 2^63: the cast to i64 and back keeps the value).
PgSave(table, id, sn, state) ==
    IF PgInsertOk(table, id, sn)
    THEN table \cup {[id |-> id, seq_no |-> sn, state |-> ToBytes(state)]}
    ELSE table

\* A query that selects the row with the least seq_no of the id.
PgSelectMin(table, id) ==
    {r \in table : r.id = id /\ \A o \in table : o.id = id => r.seq_no <= o.seq_no}

\* postgres snapshot_store.rs:109-114: the rows of the id whose seq_no is
\* the maximum of the id's rows.
PgSelect(table, id) ==
    {r \in table : r.id = id /\ \A o \in table : o.id = id => o.seq_no <= r.seq_no}

\* postgres snapshot_store.rs:107-127: load queries for at most one row
\* (query_opt fails on more) and converts the sequence number and the state.
PgLoad(table, id) ==
    LET found == PgSelect(table, id)
    IN  IF found = {} THEN LoadNone
        ELSE IF Cardinality(found) > 1 THEN LoadErr
        ELSE LET row == CHOOSE r \in found : TRUE
             IN  IF ValidSeqNo(row.seq_no)
                 THEN LoadSome(row.seq_no, FromBytes(row.state))
                 ELSE LoadErr

\* nats snapshot_store.rs:195-209, postgres snapshot_store.rs:230-251: the
\* default of bucket and of snapshots_table.
DefaultName == "snapshots"

\* The names a Config may carry for the bucket and the table.
StoreNames == {DefaultName, "entity_snapshots"}

\* nats snapshot_store.rs:40-51: with setup, new creates the bucket "snapshots".
NatsSetup(bs, cfg) == IF cfg.setup THEN bs \cup {"snapshots"} ELSE bs

\* nats snapshot_store.rs:53-56, 100, 125: save and load get the bucket
\* named self.bucket, which is config.bucket.
NatsBucket(cfg) == cfg.name

\* postgres snapshot_store.rs:38-50: with setup, new runs
\* create_snapshot_store.sql, which creates the table snapshots, with
\* "snapshots" replaced by config.snapshots_table.
PgSetup(ts, cfg) == IF cfg.setup THEN ts \cup {cfg.name} ELSE ts

\* postgres snapshot_store.rs:88, 110-113: the table named in the SQL of
\* save and load.
PgTable(cfg) == "snapshots"

\* NatsSnapshotStore::new and PostgresSnapshotStore::new are called with a
\* Config that carries the name and the setup flag, over a server and a
\* database that are empty.
StoreNew(name, setup) ==
    /\ config = NoConfig
    /\ LET cfg == [name |-> name, setup |-> setup]
       IN  /\ buckets' = NatsSetup(buckets, cfg)
           /\ tables' = PgSetup(tables, cfg)
           /\ config' = cfg
    /\ UNCHANGED <<kv, rows, saved>>
    /\ UNCHANGED <<core, buffer, second>>

\* nats snapshot_store.rs:100: get_bucket fails when there is no such bucket.
NatsReady == NatsBucket(config) \in buckets

\* postgres snapshot_store.rs:85-93, 107-116: the statement fails when there
\* is no such table.
PgReady == PgTable(config) \in tables

\* save(id, seq_no, state) is called on the NATS store and on the PostgreSQL
\* store.
StoreSave(id, sn, state) ==
    /\ config # NoConfig
    /\ Len(saved) < MaxSaves
    /\ kv' = IF NatsReady THEN NatsSave(kv, id, sn, state) ELSE kv
    /\ rows' = IF PgReady THEN PgSave(rows, id, sn, state) ELSE rows
    /\ saved' = Append(saved, [id |-> id, seq_no |-> sn, state |-> state,
                               nats |-> NatsReady,
                               pg |-> PgReady /\ PgInsertOk(rows, id, sn)])
    /\ UNCHANGED <<buckets, tables, config>>
    /\ UNCHANGED <<core, buffer, second>>

\* load(id) on the NATS store and on the PostgreSQL store.
StoreNatsLoad(id) == IF NatsReady THEN NatsLoad(kv, id) ELSE LoadErr
StorePgLoad(id) == IF PgReady THEN PgLoad(rows, id) ELSE LoadErr

\* Both stores were constructed with the default Config and setup over an
\* empty server and an empty database (the tests' stores).
InitStore ==
    /\ UnspawnedWith({Buffer}, {1})
    /\ fresh = TRUE
    /\ LET cfg == [name |-> DefaultName, setup |-> TRUE]
       IN  /\ buckets = NatsSetup({}, cfg)
           /\ tables = PgSetup({}, cfg)
           /\ config = cfg

NextStore == \E id \in Ids, n \in 1 .. MaxSeqNo, state \in StateValues : StoreSave(id, n, state)

SpecStore == InitStore /\ [][NextStore]_vars

\* The stores are constructed with any Config, then used.
InitSetup ==
    /\ UnspawnedWith({Buffer}, {1})
    /\ fresh = TRUE
    /\ NotConstructed

NextSetup ==
    \/ \E name \in StoreNames, setup \in BOOLEAN : StoreNew(name, setup)
    \/ \E id \in Ids, n \in 1 .. MaxSeqNo, state \in StateValues : StoreSave(id, n, state)

SpecSetup == InitSetup /\ [][NextSetup]_vars

\* ============================================================== claims
NoFault == [kind |-> "none", at |-> 1]

\* The events of a log, in log order.
EvtsOf(log) == [i \in 1 .. Len(log) |-> log[i].evt]

\* C1: for an entity spawned over empty stores and with no storage failure,
\* whenever the task is idle, seq_no equals the number k of events produced
\* by the commands answered Ok, and the log holds exactly the sequence
\* numbers 1..k, each once, carrying those events in production order.
C1_SeqNoCountsEvents ==
    (fresh /\ ~failed /\ pc = "idle") =>
        /\ seq_no = Len(produced)
        /\ Len(evtLog) = Len(produced)
        /\ \A i \in 1 .. Len(evtLog) :
             evtLog[i] = [seq_no |-> i, evt |-> produced[i]]

\* C1 witness: a fresh entity, no failure, idle after commands that
\* produced MaxSeqNo events, one of them a Dec.
C1_Witness ==
    /\ fresh /\ ~failed /\ pc = "idle"
    /\ Len(produced) = MaxSeqNo
    /\ seq_no = MaxSeqNo
    /\ \E i \in 1 .. Len(produced) : produced[i].evt = "Decreased"

\* C2: whenever the entity task is idle, its seq_no equals the last
\* sequence number of the event log, for fresh and recovered entities alike.
C2_IdleSeqNoIsLast ==
    pc = "idle" => seq_no = LastSeqNo(evtLog)

\* C2 witness: an entity recovered from a snapshot that is behind the log
\* is idle after handling a command that produced events.
C2_Witness ==
    /\ ~fresh /\ pc = "idle"
    /\ snapStore.some /\ snapStore.v.seq_no < LastSeqNo(evtLog)
    /\ Len(trace) > 1 /\ trace[2].op = "persist" /\ trace[2].ok
    /\ seq_no > MaxInitLog

\* The handle_evt calls of a trace that returned Some.
SomeCalls(tr) == {i \in 1 .. Len(tr) : tr[i].op = "handle_evt" /\ tr[i].ok}

\* The last command's save succeeded.
Saved == trace # <<>> /\ trace[Len(trace)].op = "save" /\ trace[Len(trace)].ok

\* C3: when handle_evt returned Some at positions p1 < ... < pm of a batch,
\* the snapshot written carries the sequence number that was passed to the
\* handle_evt call at position pm.
C3_SnapshotAtLastSome ==
    Saved =>
        /\ snapStore.some
        /\ snapStore.v.seq_no = trace[MaxOf(SomeCalls(trace))].seq_no

\* C4: with stores written by entity run loops over initially empty stores,
\* spawning over the event log with the no-op snapshot store recovers the
\* same state and seq_no as spawning over it with the snapshot store.
C4_SnapshotTransparency ==
    fresh =>
        LET noop == SpawnRun(evtLog, NoopLoad, snapEvery, NoFault)
            real == SpawnRun(evtLog, SnapLoad(snapStore), snapEvery, NoFault)
        IN  /\ noop.ret = real.ret
            /\ noop.value = real.value
            /\ noop.seq_no = real.seq_no

\* ----------------------------------------------------------- C5 .. C10
\* The entity task takes the command at the head of the channel.
RecvStep == pc = "idle" /\ queue # <<>> /\ Len(queue') < Len(queue)

\* The stores, the sequence number and the behavior are left as they are.
EntityUnchanged ==
    /\ evtLog' = evtLog
    /\ snapStore' = snapStore
    /\ seq_no' = seq_no
    /\ value' = value

\* C5: when the behavior rejects a command, nothing but handle_cmd is
\* called, the log, the snapshot store, seq_no and the behavior are
\* unchanged, the caller gets InvalidCommand with the domain error, and the
\* task stays idle, ready for the next command.
C5_RejectionIsolation ==
    [][(RecvStep /\ ~BehHandleCmd(value, Head(queue).cmd).ok) =>
          /\ EntityUnchanged
          /\ pc' = "idle"
          /\ queue' = Tail(queue)
          /\ trace' = <<Call("handle_cmd", seq_no, value, FALSE)>>
          /\ replies' = (Head(queue).from :>
                           Outcome("InvalidCommand", <<>>,
                                   BehHandleCmd(value, Head(queue).cmd).err))]_vars

\* C5 witness: on a fresh counter a Dec has just been rejected with
\* Underflow, and another caller is sending an Inc.
C5_Witness ==
    /\ fresh /\ ~failed /\ pc = "idle"
    /\ seq_no = 0 /\ evtLog = <<>>
    /\ \E d \in Clients : cstate[d] = "blocked" /\ ccmd[d].op = "Inc"
    /\ \E c \in DOMAIN replies :
         replies[c].kind = "InvalidCommand" /\ replies[c].err = "Underflow"

\* C6: when the behavior accepts a command with no events, persist,
\* handle_evt and save are not called, seq_no, the log and the snapshot
\* store are unchanged, and the reply is Ok with the empty list.
C6_EmptyBatchNoOp ==
    [][(RecvStep /\ BehHandleCmd(value, Head(queue).cmd).ok
                 /\ BehHandleCmd(value, Head(queue).cmd).evts = <<>>) =>
          /\ EntityUnchanged
          /\ pc' = "idle"
          /\ queue' = Tail(queue)
          /\ trace' = <<Call("handle_cmd", seq_no, value, TRUE)>>
          /\ replies' = (Head(queue).from :> Outcome("Ok", <<>>, "none"))]_vars

\* C6 witness: an empty batch was answered Ok on an entity that holds events.
C6_Witness ==
    /\ pc = "idle" /\ seq_no > 0
    /\ trace = <<Call("handle_cmd", seq_no, value, TRUE)>>
    /\ \E c \in DOMAIN replies : replies[c] = Outcome("Ok", <<>>, "none")

\* The sequence number of the loaded snapshot, 0 when there is none.
SnapSeqNoOf(store) == IF store.some THEN store.v.seq_no ELSE 0

\* The event stored under sequence number n.
EvtAt(log, n) == log[CHOOSE i \in 1 .. Len(log) : log[i].seq_no = n].evt

\* The value after applying the events from..to of the log, in ascending order, to v.
RECURSIVE ApplyRange(_, _, _, _)
ApplyRange(v, log, from, to) ==
    IF from > to THEN v
    ELSE ApplyRange(BehApply(v, EvtAt(log, from)), log, from + 1, to)

\* The state recovery is to reach: the snapshot's state (the default when
\* there is none) with the events after the snapshot applied.
RecoveredValue(log, store) ==
    ApplyRange(IF store.some THEN store.v.state ELSE BehDefault, log,
               SnapSeqNoOf(store) + 1, LastSeqNo(log))

\* The calls recovery is to make on the behavior: set_state once when there
\* is a snapshot, then handle_evt for s+1..l in ascending order.
RecoveryCalls(log, store) ==
    (IF store.some THEN << <<"set_state", store.v.seq_no>> >> ELSE <<>>)
        \o [i \in 1 .. (LastSeqNo(log) - SnapSeqNoOf(store)) |->
              <<"handle_evt", SnapSeqNoOf(store) + i>>]

CallsOf(tr) == [i \in 1 .. Len(tr) |-> <<tr[i].op, tr[i].seq_no>>]

\* The trace of a spawn: command traces start with handle_cmd.
IsSpawnTrace(tr) == tr = <<>> \/ tr[1].op # "handle_cmd"

\* C7: a successful spawn over a snapshot at s (0: none) and a log ending
\* at l >= s calls set_state once iff there is a snapshot, then handle_evt
\* exactly for s+1..l in ascending order, and starts the entity with
\* seq_no = l and the recovered state; the first command after spawn is
\* handled against that state.
C7_RecoveryRange ==
    [][/\ (CanSpawn /\ pc' = "idle") =>
            /\ SnapSeqNoOf(snapStore) <= LastSeqNo(evtLog)
            /\ CallsOf(trace') = RecoveryCalls(evtLog, snapStore)
            /\ seq_no' = LastSeqNo(evtLog)
            /\ value' = RecoveredValue(evtLog, snapStore)
       /\ (RecvStep /\ IsSpawnTrace(trace) /\ pc' = "persisting") =>
            cur'.evts = BehHandleCmd(RecoveredValue(evtLog, snapStore),
                                     Head(queue).cmd).evts]_vars

\* C7 witness: spawned over a snapshot at 1 and a log ending at 2, the
\* entity replayed event 2 only and handles Inc(1) against the value 2.
C7_Witness ==
    /\ pc = "persisting"
    /\ snapStore = Some([seq_no |-> 1, state |-> 1])
    /\ LastSeqNo(evtLog) = 2
    /\ seq_no = 2
    /\ cur.evts = <<Increased(2, 1)>>
    /\ trace = <<Call("handle_cmd", 2, 2, TRUE)>>

\* The replies of a step hold no Ok, and EntityTerminated for client c.
Terminated(c) ==
    /\ c \in DOMAIN replies'
    /\ replies'[c].kind = "EntityTerminated"
    /\ \A x \in DOMAIN replies' : replies'[x].kind # "Ok"

\* The last call of the trace is a persist, or a save, that failed.
PersistFailed(tr) == tr # <<>> /\ tr[Len(tr)].op = "persist" /\ ~tr[Len(tr)].ok
SaveFailed(tr) == tr # <<>> /\ tr[Len(tr)].op = "save" /\ ~tr[Len(tr)].ok

\* C8: when persist fails the task exits without handle_evt or save and
\* without changing the log; the caller and every queued command get
\* EntityTerminated, no reply is Ok, later calls get SendCmd or
\* EntityTerminated, and the log holds exactly the events of the commands
\* answered Ok before.
C8_PersistFailureIsFatal ==
    [][/\ (pc = "persisting" /\ PersistFailed(trace')) =>
            /\ pc' = "terminated"
            /\ EntityUnchanged
            /\ trace' = Append(trace, Call("persist", seq_no, 0, FALSE))
            /\ Terminated(cur.from)
            /\ \A i \in 1 .. Len(queue) : Terminated(queue[i].from)
            /\ queue' = <<>>
            /\ (fresh /\ ~failed) => EvtsOf(evtLog') = produced
       /\ (pc = "terminated" /\ pc' = "terminated" /\ replies' # replies) =>
            \A c \in DOMAIN replies' :
                replies'[c].kind \in {"SendCmd", "EntityTerminated"}]_vars

\* C8 witness: on a fresh entity a first Inc(1) was answered Ok and the
\* persist of a second command failed while a third was queued: the task is
\* terminated, both callers got EntityTerminated, the log holds event 1.
C8_Witness ==
    /\ fresh /\ pc = "terminated"
    /\ PersistFailed(trace)
    /\ evtLog = <<[seq_no |-> 1, evt |-> Increased(0, 1)]>>
    /\ DOMAIN replies = Clients
    /\ \A c \in Clients : replies[c].kind = "EntityTerminated"

\* The sequence numbers recovery passes to handle_evt.
ReplayedSeqNos(tr) == {tr[i].seq_no : i \in {j \in 1 .. Len(tr) : tr[j].op = "handle_evt"}}

\* C9: when save fails the task exits as for a persist failure: the caller
\* and every queued command get EntityTerminated and no reply is Ok, the
\* snapshot store keeps its content, the events of the batch stay in the
\* log, and a spawn over the same stores replays them and starts at the
\* log's last sequence number.
C9_SaveFailureIsFatal ==
    [][(pc = "saving" /\ SaveFailed(trace')) =>
          /\ pc' = "terminated"
          /\ EntityUnchanged
          /\ Terminated(cur.from)
          /\ \A i \in 1 .. Len(queue) : Terminated(queue[i].from)
          /\ queue' = <<>>
          /\ SubSeq(EvtsOf(evtLog'), Len(evtLog') - Len(cur.evts) + 1, Len(evtLog'))
                = cur.evts
          /\ LET r == SpawnRun(evtLog', SnapLoad(snapStore'), snapEvery, NoFault)
             IN  /\ r.ret = "Ok"
                 /\ r.seq_no = LastSeqNo(evtLog')
                 /\ \A n \in (seq_no - Len(cur.evts) + 1) .. seq_no :
                        n \in ReplayedSeqNos(r.trace)]_vars

\* C9 witness: the save asked for by a command failed on an entity whose
\* snapshot store holds an earlier snapshot; the task is terminated and the
\* caller got EntityTerminated.
C9_Witness ==
    /\ pc = "terminated"
    /\ SaveFailed(trace)
    /\ snapStore.some /\ snapStore.v.seq_no < LastSeqNo(evtLog)
    /\ \E c \in DOMAIN replies : replies[c].kind = "EntityTerminated"

\* The snapshot is ahead of the log.
Inconsistent == SnapSeqNoOf(snapStore) > LastSeqNo(evtLog)

\* spawn got past load and last_seq_no.
SpawnComparedSeqNos == spawnRet \notin {"none", "LoadSnapshot", "LastSeqNo"}

\* C10 as claimed: when the loaded snapshot's seq_no is greater than the
\* log's last_seq_no, spawn returns the error Inconsistent, and no entity
\* task is started.
C10_ReturnsInconsistent ==
    (Inconsistent /\ SpawnComparedSeqNos) =>
        /\ spawnRet = "Inconsistent"
        /\ pc = "unspawned"

\* C10 amended: when the loaded snapshot's seq_no is greater than the log's
\* last_seq_no, spawn panics on its assertion: it returns neither a
\* SpawnEntityError nor an EntityRef, and no entity task is started.
C10_PanicsOnInconsistent ==
    (Inconsistent /\ SpawnComparedSeqNos) =>
        /\ spawnRet = "panic"
        /\ spawnRet \notin SpawnEntityError
        /\ pc = "unspawned"

\* C10 witness: a spawn over a snapshot at 2 and a log ending at 1 has panicked.
C10_Witness ==
    /\ SnapSeqNoOf(snapStore) = 2 /\ LastSeqNo(evtLog) = 1
    /\ spawnRet = "panic"
    /\ pc = "unspawned"

\* The handle_evt calls of a trace, in call order.
HandleEvtCalls(tr) == SelectSeq(tr, LAMBDA x : x.op = "handle_evt")

\* The state of the behavior after the first i events of a batch.
RECURSIVE AppliedUpTo(_, _, _)
AppliedUpTo(v, evts, i) ==
    IF i = 0 THEN v ELSE BehApply(AppliedUpTo(v, evts, i - 1), evts[i])

\* C20: for a command that produced n events, handle_evt is not called
\* before persist has returned and not at all when persist fails; when
\* persist succeeds for the batch, handle_evt is called exactly once per
\* event, in production order, and the i-th call gets the sequence number
\* (seq_no before the command) + i, under which that event is in the log.
C20_HandleEvtOncePerEvent ==
    [][pc = "persisting" =>
          /\ HandleEvtCalls(trace) = <<>>
          /\ pc' = "persisting" \/
             LET n == Len(cur.evts)
                 calls == HandleEvtCalls(trace')
                 first == Len(trace) + 1
             IN  /\ trace'[first].op = "persist"
                 /\ trace'[first].seq_no = seq_no
                 /\ \A i \in 1 .. first : trace'[i].op # "handle_evt"
                 /\ IF ~trace'[first].ok
                    THEN calls = <<>> /\ evtLog' = evtLog
                    ELSE /\ Len(calls) = n
                         /\ Len(evtLog') = Len(evtLog) + n
                         /\ seq_no' = seq_no + n
                         /\ \A i \in 1 .. n :
                              /\ calls[i].seq_no = seq_no + i
                              /\ calls[i].state = AppliedUpTo(value, cur.evts, i)
                              /\ evtLog'[Len(evtLog) + i] =
                                    [seq_no |-> seq_no + i, evt |-> cur.evts[i]]]_vars

\* C20 witness: a command that produced MaxBatch events has been persisted
\* on top of a log that was not empty, and handle_evt was called for each.
C20_Witness ==
    /\ Len(HandleEvtCalls(trace)) = MaxBatch
    /\ trace[1].op = "handle_cmd"
    /\ trace[1].seq_no > 0
    /\ trace[2].op = "persist" /\ trace[2].ok

\* The command of client c is the last one of the channel q.
LastOf(q, c) == q # <<>> /\ q[Len(q)].from = c /\ q[Len(q)].cmd = ccmd[c]

\* C13: the command channel never holds more than `buffer` unreceived
\* commands; a call started while it holds `buffer` commands is suspended in
\* its send with its command kept, and a suspended send stays suspended
\* until its command is appended to a channel that has room, or it fails
\* with SendCmd because the entity task has terminated.
C13_Backpressure ==
    [][/\ Len(queue) <= buffer /\ Len(queue') <= buffer
       /\ \A c \in Clients :
            /\ (cstate[c] = "idle" /\ cstate'[c] # "idle" /\ Len(queue) = buffer) =>
                  /\ cstate'[c] = "blocked"
                  /\ ccmd'[c] \in Cmds
                  /\ queue' = queue
            /\ cstate[c] = "blocked" =>
                  \/ cstate'[c] = "blocked" /\ ccmd'[c] = ccmd[c]
                  \/ /\ cstate'[c] = "waiting" /\ ccmd'[c] = ccmd[c]
                     /\ Len(queue) < buffer
                     /\ Len(queue') = Len(queue) + 1
                     /\ SubSeq(queue', 1, Len(queue)) = queue
                     /\ LastOf(queue', c)
                  \/ /\ cstate'[c] = "idle"
                     /\ pc' = "terminated"
                     /\ c \in DOMAIN replies'
                     /\ replies'[c].kind = "SendCmd"]_vars

\* C13 witness: the channel holds `buffer` commands and a further call is
\* suspended in its send.
C13_Witness ==
    /\ Len(queue) = buffer
    /\ \E c \in Clients : cstate[c] = "blocked" /\ ccmd[c] \in Cmds

\* The records persist adds to the log for the batch being handled.
BatchRecords == [i \in 1 .. Len(cur.evts) |-> [seq_no |-> seq_no + i, evt |-> cur.evts[i]]]

\* C12: every queued command is the command of the call that sent it and
\* commands join the channel at its end; the task takes a command only when
\* it is idle, and then the one accepted first, and what it does next
\* (reject, answer Ok with no events, or persist) is what the behavior
\* decides for that command; the events persisted are those of the command
\* being handled and get sequence numbers above all that are in the log;
\* and the Ok reply goes to the sender of that command with exactly them.
C12_OrderedDelivery ==
    [][/\ \A i \in 1 .. Len(queue) :
            /\ queue[i].cmd = ccmd[queue[i].from]
            /\ cstate[queue[i].from] = "waiting"
       /\ Len(queue') > Len(queue) =>
            /\ Len(queue') = Len(queue) + 1
            /\ SubSeq(queue', 1, Len(queue)) = queue
       /\ (Len(queue') < Len(queue) /\ pc' # "terminated") =>
            /\ pc = "idle"
            /\ queue' = Tail(queue)
            /\ LET m == queue[1]
                   r == BehHandleCmd(value, m.cmd)
               IN  /\ trace' = <<Call("handle_cmd", seq_no, value, r.ok)>>
                   /\ IF r.ok /\ r.evts # <<>>
                      THEN /\ pc' = "persisting"
                           /\ cur'.from = m.from
                           /\ cur'.evts = r.evts
                      ELSE /\ pc' = "idle"
                           /\ DOMAIN replies' = {m.from}
                           /\ replies'[m.from] =
                                 IF r.ok THEN Outcome("Ok", <<>>, "none")
                                 ELSE Outcome("InvalidCommand", <<>>, r.err)
       /\ evtLog' # evtLog =>
            /\ pc = "persisting"
            /\ evtLog' = evtLog \o BatchRecords
            /\ \A i \in 1 .. Len(evtLog), j \in 1 .. Len(BatchRecords) :
                 evtLog[i].seq_no < BatchRecords[j].seq_no
       /\ (pc = "persisting" /\ pc' = "saving") =>
            cur'.from = cur.from /\ cur'.evts = cur.evts
       /\ (pc \in {"persisting", "saving"} /\ pc' = "idle") =>
            /\ DOMAIN replies' = {cur.from}
            /\ replies'[cur.from] = Outcome("Ok", cur.evts, "none")
            /\ SubSeq(EvtsOf(evtLog'), Len(evtLog') - Len(cur.evts) + 1, Len(evtLog'))
                  = cur.evts]_vars

\* C12 witness: after earlier commands were handled, two clones have each a
\* command that produces events in the channel, and the task is idle.
C12_Witness ==
    /\ pc = "idle"
    /\ Len(queue) = 2
    /\ queue[1].from # queue[2].from
    /\ queue[1].cmd.op = "Batch" /\ queue[1].cmd.n > 0
    /\ queue[2].cmd.op = "Dec"
    /\ trace # <<>> /\ trace[1].op = "handle_cmd"

\* The caller c gives up its call: it stops waiting and gets no reply.
GaveUp(c) == cstate[c] = "waiting" /\ cstate'[c] = "idle" /\ c \notin DOMAIN replies'

\* No call completes.
NoReply == replies' = NoReplies /\ cstate' = cstate /\ ccmd' = ccmd

\* C16: a caller that gives up its call after the send changes nothing of
\* the entity, the stores, the channel's commands or the command being
\* handled; a command whose caller gave up is taken from the channel and
\* rejected, answered or persisted as the behavior decides, its events are
\* appended to the log and applied, a snapshot that handle_evt asked for is
\* saved, and at its end the task is idle with the channel as it was: no
\* call completes, and the task does not terminate.
C16_DroppedAwaiterNoEffect ==
    [][/\ \A c \in Clients : GaveUp(c) =>
            /\ EntityUnchanged
            /\ pc' = pc /\ trace' = trace
            /\ Len(queue') = Len(queue)
            /\ \A i \in 1 .. Len(queue) : queue'[i].cmd = queue[i].cmd
            /\ cur'.evts = cur.evts /\ cur'.state = cur.state
       /\ (pc = "idle" /\ Len(queue') < Len(queue) /\ ~queue[1].awaited) =>
            LET r == BehHandleCmd(value, queue[1].cmd)
            IN  /\ queue' = Tail(queue)
                /\ EntityUnchanged
                /\ trace' = <<Call("handle_cmd", seq_no, value, r.ok)>>
                /\ IF r.ok /\ r.evts # <<>>
                   THEN pc' = "persisting" /\ cur'.evts = r.evts /\ ~cur'.awaited
                   ELSE pc' = "idle" /\ NoReply
       /\ (pc = "persisting" /\ pc' # "persisting" /\ ~cur.awaited) =>
            /\ evtLog' = evtLog \o BatchRecords
            /\ seq_no' = seq_no + Len(cur.evts)
            /\ value' = AppliedUpTo(value, cur.evts, Len(cur.evts))
            /\ queue' = queue
            /\ IF SomeCalls(trace') # {}
               THEN pc' = "saving" /\ cur'.state.some /\ ~cur'.awaited
               ELSE pc' = "idle" /\ NoReply
       /\ (pc = "saving" /\ pc' # "saving" /\ ~cur.awaited) =>
            /\ snapStore' = Some([seq_no |-> seq_no, state |-> cur.state.v])
            /\ evtLog' = evtLog /\ seq_no' = seq_no /\ value' = value
            /\ queue' = queue
            /\ pc' = "idle" /\ NoReply]_vars

\* C16 witness: the events of a command whose caller gave up are in the log
\* and applied, its snapshot is being saved, and the command of a caller
\* that waits is next in the channel.
C16_Witness ==
    /\ pc = "saving" /\ ~cur.awaited
    /\ seq_no = LastSeqNo(evtLog) /\ seq_no >= Len(cur.evts)
    /\ queue # <<>> /\ queue[1].awaited

\* C14: with stores that do not fail, the task terminates only when every
\* EntityRef clone is dropped, it is idle and the channel is empty; once the
\* channel is closed its commands leave it only by being handled, first
\* first, and the events of such a command are persisted; and once the
\* channel is closed the task does terminate.
C14_CleanShutdown ==
    /\ [][/\ (pc' = "terminated" /\ pc # "terminated") =>
               /\ Closed
               /\ pc = "idle" /\ queue = <<>> /\ cur = NoCur
               /\ EntityUnchanged
          /\ (Closed /\ queue' # queue) =>
               /\ pc = "idle"
               /\ queue' = Tail(queue)
               /\ trace' = <<Call("handle_cmd", seq_no, value,
                                  BehHandleCmd(value, queue[1].cmd).ok)>>
               /\ (pc' # "persisting"
                     \/ cur'.evts = BehHandleCmd(value, queue[1].cmd).evts)
          /\ (Closed /\ pc = "persisting" /\ pc' # "persisting") =>
               evtLog' = evtLog \o BatchRecords]_vars
    /\ (Closed ~> pc = "terminated")

\* C14 witness: every EntityRef clone is dropped while the task is
\* persisting the events of a command that was accepted before.
C14_Witness ==
    /\ Closed
    /\ pc = "persisting"
    /\ cur.evts # <<>>

\* The task has terminated and no command was handled since its spawn.
SpawnedAndLeft == pc = "terminated" /\ spawnRet = "Ok" /\ IsSpawnTrace(trace)

\* C17: no spawn changes the event log or the snapshot store; and a spawn
\* that follows a spawn whose task has terminated without handling a
\* command makes the same calls on the behavior and starts the entity with
\* the same state and the same seq_no as that earlier spawn.
C17_RecoveryDeterministic ==
    [][/\ (CanSpawn /\ pc' = "idle") =>
            evtLog' = evtLog /\ snapStore' = snapStore
       /\ (SpawnedAndLeft /\ pc' = "idle") =>
            /\ value' = value
            /\ seq_no' = seq_no
            /\ trace' = trace]_vars

\* C17 witness: over a snapshot that is behind the log, an entity was
\* spawned, with set_state and a replay, and its task has terminated
\* without handling a command; the next spawn finds the same stores.
C17_Witness ==
    /\ SpawnedAndLeft
    /\ snapStore.some /\ snapStore.v.seq_no < LastSeqNo(evtLog)
    /\ Len(trace) >= 2
    /\ trace[1].op = "set_state" /\ trace[2].op = "handle_evt"

\* C15: a call that ends gets an outcome, one of Ok, InvalidCommand,
\* SendCmd and EntityTerminated: Ok only when the behavior accepted the
\* command, no persist or save failed and its events are the last of the
\* log; InvalidCommand only from the behavior's rejection of that command;
\* SendCmd only to a call whose command never got into the channel, the
\* task being terminated; EntityTerminated only to a call whose command was
\* in the channel or being handled when the task exited.  And every call
\* that has begun ends.
C15_EveryCallReturns ==
    /\ [][\A c \in Clients :
            /\ (cstate[c] # "idle" /\ cstate'[c] = "idle") => c \in DOMAIN replies'
            /\ c \in DOMAIN replies' =>
                 LET o == replies'[c]
                 IN  /\ cstate'[c] = "idle"
                     /\ o.kind \in {"Ok", "InvalidCommand", "SendCmd", "EntityTerminated"}
                     /\ o.kind = "Ok" =>
                          /\ cstate[c] = "waiting"
                          /\ pc' = "idle"
                          /\ ~PersistFailed(trace') /\ ~SaveFailed(trace')
                          /\ SomeCalls(trace') # {} => Saved'
                          /\ IF pc = "idle"
                             THEN /\ queue[1].from = c
                                  /\ BehHandleCmd(value, ccmd[c]).ok
                                  /\ o.evts = <<>>
                             ELSE /\ cur.from = c
                                  /\ o.evts = cur.evts
                                  /\ SubSeq(EvtsOf(evtLog'),
                                            Len(evtLog') - Len(o.evts) + 1,
                                            Len(evtLog')) = o.evts
                     /\ o.kind = "InvalidCommand" =>
                          /\ cstate[c] = "waiting"
                          /\ pc = "idle" /\ queue[1].from = c
                          /\ ~BehHandleCmd(value, ccmd[c]).ok
                          /\ o.err = BehHandleCmd(value, ccmd[c]).err
                     /\ o.kind = "SendCmd" =>
                          /\ cstate[c] \in {"idle", "blocked"}
                          /\ pc' = "terminated"
                          /\ \A i \in 1 .. Len(queue) : queue[i].from # c
                     /\ o.kind = "EntityTerminated" =>
                          /\ cstate[c] = "waiting"
                          /\ pc # "terminated" /\ pc' = "terminated"]_vars
    /\ \A c \in Clients : (cstate[c] # "idle") ~> (cstate[c] = "idle")

\* C15 witness: a persist has failed while one call awaited its reply and
\* another was suspended in its send: the task is terminated, the first got
\* EntityTerminated and the second SendCmd.
C15_Witness ==
    /\ pc = "terminated"
    /\ PersistFailed(trace)
    /\ \E c, d \in DOMAIN replies :
         replies[c].kind = "EntityTerminated" /\ replies[d].kind = "SendCmd"

\* C11: persist for the id is never in progress from two tasks at once,
\* and a task that calls persist passes the last sequence number the log
\* holds at that moment.
C11_SingleWriter ==
    [][/\ ~(pc' = "persisting" /\ pc2' = "persisting")
       /\ (pc # "persisting" /\ pc' = "persisting") => seq_no = LastSeqNo(evtLog)
       /\ (pc2 # "persisting" /\ pc2' = "persisting") => seq_no2 = LastSeqNo(evtLog)]_vars

\* ---- snapshot store adapters: what load returns after saves
\* The save calls for id that returned Ok on the adapter (a field of saved).
SavesFor(id, adapter) == SelectSeq(saved, LAMBDA e : e.id = id /\ e[adapter])

\* The snapshot of the last save of a sequence of saves, as load returns it.
LastSave(s) == IF s = <<>> THEN LoadNone ELSE LoadSome(s[Len(s)].seq_no, s[Len(s)].state)

\* The sequence numbers of a sequence of saves are strictly increasing.
Increasing(s) == \A i, j \in 1 .. Len(s) : i < j => s[i].seq_no < s[j].seq_no

\* C18 as stated: on either adapter load(id) returns none while nothing was
\* saved for id, and otherwise the seq_no and state of the last successful
\* save(id), whatever was saved under other ids.
C18_RoundTrip ==
    \A id \in Ids :
        /\ NatsLoad(kv, id) = LastSave(SavesFor(id, "nats"))
        /\ PgLoad(rows, id) = LastSave(SavesFor(id, "pg"))

\* C18, amended: load(id) returns none while nothing was saved for id,
\* whatever was saved under other ids; on the NATS adapter it returns the
\* seq_no and state of the last successful save(id); on the PostgreSQL
\* adapter it returns those of the successful save(id) with the greatest
\* seq_no, which is the last one when no earlier save(id) had a greater
\* seq_no.
C18_RoundTripGreatest ==
    \A id \in Ids :
        LET s == SavesFor(id, "pg")
        IN  /\ NatsLoad(kv, id) = LastSave(SavesFor(id, "nats"))
            /\ s = <<>> => PgLoad(rows, id) = LoadNone
            /\ s # <<>> =>
                  \E i \in 1 .. Len(s) :
                      /\ PgLoad(rows, id) = LoadSome(s[i].seq_no, s[i].state)
                      /\ \A j \in 1 .. Len(s) : s[j].seq_no <= s[i].seq_no
            /\ (\A j \in 1 .. Len(s) : s[j].seq_no <= s[Len(s)].seq_no) =>
                  PgLoad(rows, id) = LastSave(s)

\* Both adapters hold snapshots of two ids; for one of them the last save
\* had a smaller seq_no than an earlier one, and the adapters' loads differ.
C18_Witness ==
    \E id, other \in Ids :
        LET s == SavesFor(id, "pg")
        IN  /\ other # id
            /\ SavesFor(other, "pg") # <<>>
            /\ Len(s) >= 2
            /\ s[Len(s)].seq_no < s[1].seq_no
            /\ s[Len(s)].state # s[1].state
            /\ NatsLoad(kv, id) = LastSave(s)
            /\ PgLoad(rows, id) = LoadSome(s[1].seq_no, s[1].state)

\* C19: when the successful saves of an id have strictly increasing seq_nos,
\* load(id) returns the snapshot of the last of them: the PostgreSQL adapter
\* keeps one row per save and returns the row with the maximum seq_no of the
\* id, the NATS adapter keeps the value of the last put.
C19_LatestOfIncreasing ==
    \A id \in Ids :
        /\ Increasing(SavesFor(id, "nats")) =>
              NatsLoad(kv, id) = LastSave(SavesFor(id, "nats"))
        /\ Increasing(SavesFor(id, "pg")) =>
              /\ PgLoad(rows, id) = LastSave(SavesFor(id, "pg"))
              /\ Cardinality({r \in rows : r.id = id}) = Len(SavesFor(id, "pg"))
              /\ \A r \in rows : r.id = id => r.seq_no <= PgLoad(rows, id).seq_no

\* An id was saved MaxSaves times with increasing seq_nos and differing
\* states; both adapters load the last save.
C19_Witness ==
    \E id \in Ids :
        LET s == SavesFor(id, "pg")
        IN  /\ Len(s) = MaxSaves
            /\ s = SavesFor(id, "nats")
            /\ Increasing(s)
            /\ s[Len(s)].state # s[1].state
            /\ Cardinality({r \in rows : r.id = id}) = MaxSaves
            /\ PgLoad(rows, id) = LastSave(s)
            /\ NatsLoad(kv, id) = LastSave(s)

\* ---- C21: saves per command
\* The save calls of a trace, in call order.
SaveCalls(tr) == SelectSeq(tr, LAMBDA x : x.op = "save")

\* C21: a command's save is called exactly once when a handle_evt call of
\* its batch returned Some, as the last call of the command and with the
\* state the last such handle_evt returned, and not at all when every
\* handle_evt returned None (the snapshot store is then left as it is); with
\* a behavior that asks for a snapshot at every CadenceEvery-th seq_no, of
\* single-event commands up to seq_no CadenceCmds exactly those that reach
\* seq_no 10 and 20 save.
C21_SaveOncePerCommand ==
    [][(pc = "idle" /\ trace' # trace) =>
          LET saves == SaveCalls(trace')
              some == SomeCalls(trace')
          IN  /\ Len(saves) = IF some # {} THEN 1 ELSE 0
              /\ some # {} =>
                    /\ trace'[Len(trace')].op = "save"
                    /\ saves[1].state = trace'[MaxOf(some)].state
                    /\ snapStore'.some
                    /\ snapStore'.v.state = trace'[MaxOf(some)].state
              /\ some = {} => snapStore' = snapStore
              /\ (snapEvery = CadenceEvery /\ seq_no' = seq_no + 1) =>
                    (Len(saves) = 1 <=> seq_no' \in {10, 20})]_vars

\* C21 witness: with the cadence CadenceEvery the entity handled commands
\* up to seq_no CadenceCmds, the last one a single-event command that saved
\* nothing, and the snapshot store holds the snapshot saved at seq_no 20.
C21_Witness ==
    /\ snapEvery = CadenceEvery
    /\ seq_no = CadenceCmds
    /\ Len(evtLog) = CadenceCmds
    /\ snapStore = Some([seq_no |-> 20, state |-> 20])
    /\ Len(HandleEvtCalls(trace)) = 1
    /\ SaveCalls(trace) = <<>>

\* C22: a snapshot (seq_no, state) that the run loop has written holds the
\* state the behavior reports after the log's events 1..seq_no, applied in
\* order to the initial behavior, and no later event.
C22_SnapshotIsViewAtSeqNo ==
    Saved =>
        /\ snapStore.some
        /\ snapStore.v.seq_no <= LastSeqNo(evtLog)
        /\ snapStore.v.state = ApplyRange(BehDefault, evtLog, 1, snapStore.v.seq_no)

\* C23: a snapshot written by the run loop has a seq_no that is at most
\* the log's last sequence number; and over stores that were empty before
\* the first spawn, whatever storage failures ended the run loops since,
\* the stored snapshot is never ahead of the log and no spawn meets the
\* snapshot_seq_no > last_seq_no inconsistency.
C23_SnapshotNotAheadOfLog ==
    /\ Saved => SnapSeqNoOf(snapStore) <= LastSeqNo(evtLog)
    /\ pc = "saving" => SnapshotSeqNo(seq_no) <= LastSeqNo(evtLog)
    /\ fresh =>
          /\ SnapSeqNoOf(snapStore) <= LastSeqNo(evtLog)
          /\ spawnRet # "panic"

\* C23 witness: over stores that were empty at first, a run loop saved a
\* snapshot, a later one ended in a failed save with its events in the
\* log, and the entity was spawned again over these stores.
C23_Witness ==
    /\ fresh /\ failed
    /\ pc = "idle" /\ spawnRet = "Ok"
    /\ snapStore.some
    /\ snapStore.v.seq_no < LastSeqNo(evtLog)
    /\ trace # <<>> /\ trace[1].op = "set_state"

\* C24: a spawn, whatever it returns, calls nothing but set_state and
\* handle_evt: neither persist nor save, also when a replayed handle_evt
\* returned Some; the event log and the snapshot store are the same after
\* it as before.
C24_RecoveryReadOnly ==
    [][CanSpawn =>
          /\ evtLog' = evtLog
          /\ snapStore' = snapStore
          /\ (trace' # trace \/ pc' = "idle") =>
                \A i \in 1 .. Len(trace') : trace'[i].op \in {"set_state", "handle_evt"}]_vars

\* C24 witness: a spawn replayed an event for which handle_evt returned
\* Some, at a sequence number the snapshot store has no snapshot for.
C24_Witness ==
    /\ pc = "idle" /\ spawnRet = "Ok"
    /\ IsSpawnTrace(trace)
    /\ SomeCalls(trace) # {}
    /\ SnapSeqNoOf(snapStore) < trace[MaxOf(SomeCalls(trace))].seq_no

\* The sequence numbers of the handle_evt calls of a trace, in call order.
ReplayedInOrder(tr) == [i \in 1 .. Len(HandleEvtCalls(tr)) |-> HandleEvtCalls(tr)[i].seq_no]

\* C25: over a snapshot at s (0: none) and a log ending at l, a spawn whose
\* load fails returns LoadSnapshot before any call on the behavior; one
\* whose last_seq_no fails returns LastSeqNo, one whose evts_by_id fails
\* (s < l) returns EvtsById, both without a handle_evt call; one whose pull
\* of the k-th item of the replay stream fails returns NextEvt after
\* handle_evt for s+1..s+k-1 and for no later item; and a spawn that returns
\* one of these errors starts no entity task, gives out no EntityRef and
\* leaves the event log and the snapshot store as they are.
C25_SpawnErrorIsReported ==
    [][CanSpawn =>
          LET s == SnapSeqNoOf(snapStore)
              l == LastSeqNo(evtLog)
          IN  /\ \A fault \in SpawnFaults :
                    LET r == SpawnRun(evtLog, SnapLoad(snapStore), snapEvery, fault)
                    IN  /\ fault.kind = "load" => r.ret = "LoadSnapshot" /\ r.trace = <<>>
                        /\ fault.kind = "last_seq_no" =>
                              r.ret = "LastSeqNo" /\ HandleEvtCalls(r.trace) = <<>>
                        /\ (fault.kind = "evts_by_id" /\ s < l) =>
                              r.ret = "EvtsById" /\ HandleEvtCalls(r.trace) = <<>>
                        /\ (fault.kind = "next_evt" /\ s < l /\ fault.at <= l - s) =>
                              /\ r.ret = "NextEvt"
                              /\ ReplayedInOrder(r.trace) = [i \in 1 .. fault.at - 1 |-> s + i]
              /\ (spawnRet' \in SpawnEntityError /\ (trace' # trace \/ spawnRet' # spawnRet)) =>
                    /\ pc' = pc
                    /\ evtLog' = evtLog
                    /\ snapStore' = snapStore
                    /\ queue' = queue /\ cstate' = cstate
                    /\ \E fault \in SpawnFaults :
                          LET r == SpawnRun(evtLog, SnapLoad(snapStore), snapEvery, fault)
                          IN  r.ret = spawnRet' /\ r.trace = trace' /\ fault.kind # "none"]_vars

\* C25 witness: over a log that is two events ahead of the snapshot store,
\* the pull of the second item of the replay stream failed: spawn returned
\* NextEvt after one handle_evt call and no task is alive.
C25_Witness ==
    /\ spawnRet = "NextEvt"
    /\ CanSpawn
    /\ LastSeqNo(evtLog) >= SnapSeqNoOf(snapStore) + 2
    /\ ReplayedInOrder(trace) = <<SnapSeqNoOf(snapStore) + 1>>

\* The handle_cmd calls of a trace.
HandleCmdCalls(tr) == SelectSeq(tr, LAMBDA x : x.op = "handle_cmd")

\* What the steps of the first entity's task change.
entity == <<evtLog, snapStore, pc, seq_no, value, cur, queue, trace>>

\* C26: the task takes a command from the channel only when it is idle with
\* no command in hand, and then the first one; from the persist of a command
\* to its reply the channel only grows at its end, the command in hand stays
\* the same, the calls made are added to the calls of that one handle_cmd,
\* save is followed by the reply alone, and the reply goes to the command's
\* sender; the same holds for the task of an entity of another id, whose
\* steps leave the first entity as it is and are left alone by its steps,
\* in whatever order the two tasks take them.
C26_OneCommandAtATime ==
    [][/\ Len(queue') < Len(queue) =>
            pc = "idle" /\ cur = NoCur /\ queue' = Tail(queue)
       /\ pc \in {"persisting", "saving"} =>
            /\ \/ queue' = queue
               \/ Len(queue') = Len(queue) + 1 /\ SubSeq(queue', 1, Len(queue)) = queue
            /\ SubSeq(trace', 1, Len(trace)) = trace
            /\ Len(HandleCmdCalls(trace')) = 1
            /\ pc' \in {"persisting", "saving", "idle"}
            /\ pc = "saving" => pc' \in {"saving", "idle"}
            /\ pc' \in {"persisting", "saving"} =>
                  cur'.from = cur.from /\ cur'.evts = cur.evts
            /\ pc' = "idle" => cur' = NoCur /\ DOMAIN replies' = {cur.from}
       /\ Len(queue2') < Len(queue2) => pc2 = "idle" /\ queue2' = Tail(queue2)
       /\ pc2 = "persisting" =>
            /\ pc2' = "persisting" => evts2' = evts2 /\ evtLog2' = evtLog2
            /\ pc2' # "persisting" =>
                  pc2' = "idle" /\ evtLog2' = LogPersist(evtLog2, evts2, seq_no2)
       /\ second' # second => entity' = entity
       /\ entity' # entity => second' = second]_vars

\* C26 witness: the first entity is persisting the events of a command
\* while another command waits in its channel, and the entity of another
\* id, which has handled a command before, is persisting too.
C26_Witness ==
    /\ pc = "persisting" /\ queue # <<>>
    /\ pc2 = "persisting" /\ evts2 # <<>>
    /\ evtLog2 # <<>>

\* C27: a store constructed with setup = true has the bucket, or the table,
\* named in its Config, and its first save and the load after it succeed:
\* the load returns the snapshot saved.
C27_SetupCreatesConfigured ==
    config.setup =>
        /\ config.name \in buckets
        /\ config.name \in tables
        /\ NatsReady /\ PgReady
        /\ saved # <<>> =>
              /\ saved[1].nats /\ saved[1].pg
              /\ StoreNatsLoad(saved[1].id).some
              /\ StorePgLoad(saved[1].id).some

\* The last n records of the log carry the events evts, in order, under
\* contiguous sequence numbers that end at the log's last one.
LogEndsWith(log, evts) ==
    LET n == Len(evts)
    IN  /\ Len(log) >= n
        /\ \A i \in 1 .. n :
             log[Len(log) - n + i] = [seq_no |-> LastSeqNo(log) - n + i, evt |-> evts[i]]

\* C28: a reply Ok(evts) with events goes to the sender of the command in
\* hand with exactly its events, in the step in which persist for them
\* returns Ok when no handle_evt call asked for a snapshot, and otherwise in
\* the step in which save returns Ok; the log then holds those events in
\* the returned order at contiguous sequence numbers.  A caller whose
\* command was in hand when the task exited gets EntityTerminated, and the
\* events of its command are in the log if the failure was that of save
\* and are not if it was that of persist.
C28_OkMeansDurable ==
    [][\A c \in DOMAIN replies' :
          /\ (replies'[c].kind = "Ok" /\ replies'[c].evts # <<>>) =>
                /\ pc \in {"persisting", "saving"}
                /\ cur.from = c
                /\ replies'[c].evts = cur.evts
                /\ trace'[2] = Call("persist", trace'[1].seq_no, 0, TRUE)
                /\ IF SomeCalls(trace') = {}
                   THEN pc = "persisting" /\ evtLog' = evtLog \o BatchRecords
                   ELSE /\ pc = "saving" /\ evtLog' = evtLog
                        /\ trace'[Len(trace')].op = "save"
                        /\ trace'[Len(trace')].ok
                        /\ snapStore'.some /\ snapStore'.v.seq_no = seq_no
                /\ LogEndsWith(evtLog', replies'[c].evts)
          /\ (replies'[c].kind = "EntityTerminated" /\ cur.from = c) =>
                /\ pc \in {"persisting", "saving"}
                /\ evtLog' = evtLog
                /\ pc = "saving" => SaveFailed(trace') /\ LogEndsWith(evtLog', cur.evts)
                /\ pc = "persisting" =>
                      /\ PersistFailed(trace')
                      /\ LastSeqNo(evtLog') = trace'[1].seq_no]_vars

\* C28 witness: a caller has got Ok with the MaxBatch events of its command
\* after the save of the snapshot that one of them asked for.
C28_Witness ==
    /\ pc = "idle" /\ Saved
    /\ \E c \in DOMAIN replies :
         /\ replies[c].kind = "Ok"
         /\ Len(replies[c].evts) = MaxBatch
         /\ LogEndsWith(evtLog, replies[c].evts)

====
